---- MODULE Spec2Model ----
(***************************************************************************)
(* A model of the MLflow ingestion source (metadata-ingestion/src/datahub/ *)
(* ingestion/source/mlflow.py): the paginated traversal helper, the entity *)
(* mappers and the workunit emission pipeline.                             *)
(*                                                                         *)
(* Python values are modelled as follows.                                  *)
(*   str            a TLA+ string                                          *)
(*   Optional[str]  a string, NoneStr standing for None                    *)
(*   Optional[int]  an integer, NoneInt standing for None                  *)
(*   dict           a sequence of <<key, value>> pairs in insertion order  *)
(*   list           a sequence                                             *)
(*   object         a record of its fields                                 *)
(***************************************************************************)
EXTENDS Integers, Sequences, FiniteSets, TLC

VARIABLES
    config,        \* self.config: the MLflowConfig
    client,        \* self.client: the MlflowClient (its resolved tracking URI)
    subject,       \* mappers: the entity objects a mapper is applied to
    workunits,     \* mappers: the workunits of each application so far
    source,        \* traversal: the pages the search function serves
    gen,           \* traversal: the generator's frame
    consumer,      \* traversal: what the consumer of the generator is doing
    delivered,     \* traversal: the items delivered to the consumer so far
    fetches,       \* traversal: the search_func calls made so far
    remote,        \* pipeline: the entities the tracking system holds
    pc,            \* pipeline: where get_workunits_internal stands
    gens,          \* pipeline: the frames of its traversal generators
    locals,        \* pipeline: the loop variables of its generators
    out,           \* pipeline: the workunits yielded so far
    calls,         \* pipeline: the search calls made so far, with their results
    taken,         \* pipeline: the entities the traversals delivered, as delivered
    main,          \* examples: the script that is run as __main__
    class_attrs,   \* examples: the class attributes of Experiment and Run
    objects,       \* examples: the instances constructed so far, each with its __dict__
    outcome,       \* examples: the last call made: its arguments and how it ended
    catalog        \* examples: the change proposals emitted to the catalog client

tvars == <<source, gen, consumer, delivered, fetches>>

mvars == <<subject, workunits>>

pvars == <<remote, pc, gens, locals, out, calls, taken>>

evars == <<main, class_attrs, objects, outcome, catalog>>

vars == <<config, client, mvars, tvars, pvars, evars>>

-----------------------------------------------------------------------------
(* Bounds of the model.                                                    *)

MaxPages == 3

MaxItems == 3

MaxVersion == 3

MaxApplications == 2

MaxServed == 3

MaxTokens == 1

\* The calls an example script makes, and the instances it constructs.
MaxCalls == 4

MaxObjects == 2

-----------------------------------------------------------------------------
(* Python values.                                                          *)

NoneStr == "<None>"

NoneInt == -1

\* bool(x) of an Optional[str]: None and "" are falsy.
TruthyStr(s) == s # NoneStr /\ s # ""

\* bool(x) of an Optional[int]: None and 0 are falsy.
TruthyInt(n) == n # NoneInt /\ n # 0

RECURSIVE Flatten(_)
Flatten(ss) == IF ss = <<>> THEN <<>> ELSE Head(ss) \o Flatten(Tail(ss))

\* All sequences over S of length at most n.
SeqsUpTo(S, n) == UNION {[1..k -> S] : k \in 0..n}

\* a or b, on Optional[str]
OrStr(a, b) == IF TruthyStr(a) THEN a ELSE b

\* a or b, on Optional[int]
OrInt(a, b) == IF TruthyInt(a) THEN a ELSE b

\* str(n) of an int
Str(n) == ToString(n)

\* s.startswith(prefix)
StartsWith(s, prefix) ==
    Len(s) >= Len(prefix) /\ SubSeq(s, 1, Len(prefix)) = prefix

\* s.rstrip(ch), ch one character
RECURSIVE RStrip(_, _)
RStrip(s, ch) ==
    IF Len(s) > 0 /\ SubSeq(s, Len(s), Len(s)) = ch
    THEN RStrip(SubSeq(s, 1, Len(s) - 1), ch)
    ELSE s

\* k in d
DictHas(d, k) == \E i \in 1..Len(d) : d[i][1] = k

\* d.get(k): None when k is not a key
DictGet(d, k) ==
    IF DictHas(d, k) THEN d[CHOOSE i \in 1..Len(d) : d[i][1] = k][2] ELSE NoneStr

\* d after d.pop(k, None)
DictPop(d, k) == SelectSeq(d, LAMBDA kv : kv[1] # k)

\* d after d[k] = v: k keeps its place when it is a key, and is added last when not
DictSet(d, k, v) ==
    IF DictHas(d, k)
    THEN [i \in 1..Len(d) |-> IF d[i][1] = k THEN <<k, v>> ELSE d[i]]
    ELSE Append(d, <<k, v>>)

-----------------------------------------------------------------------------
(* MLflowConfig, the MlflowClient and the source's constants.              *)

platform == "mlflow"

DefaultSeparator == "_"

DefaultConfig ==
    [tracking_uri |-> NoneStr, registry_uri |-> NoneStr,
     model_name_separator |-> DefaultSeparator, base_external_url |-> NoneStr,
     env |-> "PROD"]

\* The tracking URI MLflow resolves to when none is configured.
LocalTrackingUri == "file:///mlruns"

TrackingUris ==
    {"http://trk", "https://trk:5000/", LocalTrackingUri, "databricks", "httpruns"}

BaseExternalUrls == {NoneStr, "", "http://host", "http://host/", "https://base//"}

Separators == {DefaultSeparator, "-", ""}

Configs ==
    [tracking_uri : {NoneStr} \cup TrackingUris, registry_uri : {NoneStr},
     model_name_separator : Separators, base_external_url : BaseExternalUrls,
     env : {"PROD", "DEV"}]

\* MlflowClient(tracking_uri=self.config.tracking_uri, ...): the client's
\* tracking_uri is the configured one, or MLflow's default when none is.
MlflowClient(cfg, default_uri) ==
    [tracking_uri |-> IF cfg.tracking_uri # NoneStr THEN cfg.tracking_uri
                      ELSE default_uri]

\* _create_workunit / MetadataChangeProposalWrapper(entityUrn, aspect).as_workunit()
CreateWorkunit(urn, aspectName, aspect) ==
    [entityUrn |-> urn, aspectName |-> aspectName, aspect |-> aspect]

-----------------------------------------------------------------------------
(* Identifiers built by the catalog library (datahub.emitter.mce_builder,  *)
(* datahub.metadata.urns, ContainerKey, DataProcessInstance): each is a    *)
(* deterministic function of its natural keys.                             *)

DataPlatformUrn(platform_name) == "urn:li:dataPlatform:" \o platform_name

MakeTagUrn(tag) == "urn:li:tag:" \o tag

BuilderMakeMlModelUrn(platform_name, model_name, env) ==
    "urn:li:mlModel:(" \o DataPlatformUrn(platform_name) \o "," \o model_name
        \o "," \o env \o ")"

BuilderMakeMlModelGroupUrn(platform_name, group_name, env) ==
    "urn:li:mlModelGroup:(" \o DataPlatformUrn(platform_name) \o "," \o group_name
        \o "," \o env \o ")"

ContainerKeyWithId(platform_urn, id) == [platform |-> platform_urn, id |-> id]

\* ContainerKey.as_urn(): a container URN over the guid of the key's fields
ContainerKeyAsUrn(key) ==
    "urn:li:container:guid(" \o key.platform \o "," \o key.id \o ")"

\* DataProcessInstance(id, orchestrator).urn
DataProcessInstanceUrn(id, orchestrator) ==
    "urn:li:dataProcessInstance:guid(" \o orchestrator \o "," \o id \o ")"

VersionSetUrn(id, entity_type) ==
    "urn:li:versionSet:(" \o id \o "," \o entity_type \o ")"

-----------------------------------------------------------------------------
(* _traverse_mlflow_search_func: a generator over the pages of a search    *)
(* function.  Its frame holds next_page_token, the page being delivered    *)
(* (the items not yet yielded, and the page's token) and its position.     *)

\* next_page_token = None; while True: (about to call search_func)
TraverseStart(search_func, kwargs) ==
    [search_func |-> search_func, kwargs |-> kwargs,
     next_page_token |-> NoneStr, items |-> <<>>, token |-> NoneStr,
     at |-> "call"]

\* the arguments of search_func(page_token=next_page_token, **kwargs)
TraverseCall(g) ==
    [search_func |-> g.search_func, page_token |-> g.next_page_token,
     kwargs |-> g.kwargs]

\* paged_list = search_func(...) returned; yield from paged_list.to_list() begins
TraverseGotPage(g, paged_list) ==
    [g EXCEPT !.items = paged_list.items, !.token = paged_list.token,
              !.at = "yield"]

\* search_func(...) raised: the exception leaves the generator, which is then closed
TraverseRaised(g) == [g EXCEPT !.at = "raised"]

\* yield from: one more item of the page is to be yielded
TraverseHasItem(g) == g.at = "yield" /\ g.items # <<>>

TraverseItem(g) == Head(g.items)

TraverseYielded(g) == [g EXCEPT !.items = Tail(@)]

\* a traversal that goes for the next page while items of this one are left
TraversePageDone_Eager(g) == g.at = "yield"

\* yield from is over
TraversePageDone(g) == g.at = "yield" /\ g.items = <<>>

\* a traversal that goes on after a "" token (if next_page_token is None: return)
TraverseGoesOn_NoneOnly(token) == token # NoneStr

\* if not next_page_token
TraverseGoesOn(token) == TruthyStr(token)

\* a traversal that returns after its first page
TraverseAdvance_OnePage(g) ==
    [g EXCEPT !.next_page_token = g.token, !.at = "returned"]

\* next_page_token = paged_list.token; if not next_page_token: return
TraverseAdvance(g) ==
    [g EXCEPT !.next_page_token = g.token,
              !.at = IF TraverseGoesOn(g.token) THEN "call" ELSE "returned"]

-----------------------------------------------------------------------------
(* Entity mappers: experiments.                                            *)

NoteTag == "mlflow.note.content"

\* custom properties that keep the note tag
GetExperimentCustomProperties_KeepNote(experiment) ==
    DictSet(experiment.tags, "artifacts_location", experiment.artifact_location)

\* getattr(experiment, "tags", {}) or {}; .pop("mlflow.note.content", None);
\* ["artifacts_location"] = experiment.artifact_location: the dict returned
GetExperimentCustomProperties(experiment) ==
    DictSet(DictPop(experiment.tags, NoteTag),
            "artifacts_location", experiment.artifact_location)

\* The experiment object after _get_experiment_custom_properties: a non-empty
\* tags dict is the very dict that is popped from and written to, an empty one
\* is replaced by a fresh {} and stays as it was.
ExperimentAfterCustomProperties(experiment) ==
    IF experiment.tags # <<>>
    THEN [experiment EXCEPT !.tags = GetExperimentCustomProperties(experiment)]
    ELSE experiment

\* a container keyed by the experiment's identifier instead of its name
ExperimentContainer_KeyedById(experiment) ==
    [urn |-> ContainerKeyAsUrn(
                 ContainerKeyWithId(DataPlatformUrn(platform), experiment.experiment_id)),
     subtype |-> "ML Experiment",
     display_name |-> experiment.name,
     description |-> DictGet(experiment.tags, NoteTag)]

ExperimentContainer(experiment) ==
    [urn |-> ContainerKeyAsUrn(
                 ContainerKeyWithId(DataPlatformUrn(platform), experiment.name)),
     subtype |-> "ML Experiment",
     display_name |-> experiment.name,
     description |-> DictGet(experiment.tags, NoteTag)]

\* _get_experiment_container_workunit: the workunits it yields, in order
GetExperimentContainerWorkunit(experiment) ==
    LET experiment_container == ExperimentContainer(experiment) IN
    << CreateWorkunit(experiment_container.urn, "subTypes",
           [typeNames |-> <<experiment_container.subtype>>]),
       CreateWorkunit(experiment_container.urn, "containerProperties",
           [name |-> experiment_container.display_name,
            description |-> experiment_container.description,
            customProperties |-> GetExperimentCustomProperties(experiment)]),
       CreateWorkunit(experiment_container.urn, "browsePathsV2", [path |-> <<>>]),
       CreateWorkunit(experiment_container.urn, "dataPlatformInstance",
           [platform |-> DataPlatformUrn(platform)]) >>

\* The experiment object once the mapper has yielded its k-th workunit: the
\* custom properties are computed when the second one is built.
ExperimentAfterWorkunit(experiment, k) ==
    IF k = 2 THEN ExperimentAfterCustomProperties(experiment) ELSE experiment

-----------------------------------------------------------------------------
(* Entity mappers: runs.                                                   *)

\* [MLMetricClass(name=k, value=str(v)) for k, v in run.data.metrics.items()]
GetRunMetrics(run) ==
    [i \in 1..Len(run.data.metrics) |->
        [name |-> run.data.metrics[i][1], value |-> Str(run.data.metrics[i][2])]]

\* [MLHyperParamClass(name=k, value=str(v)) for k, v in run.data.params.items()]
GetRunParams(run) ==
    [i \in 1..Len(run.data.params) |->
        [name |-> run.data.params[i][1], value |-> run.data.params[i][2]]]

\* a converter that reports every unfinished run as failed
ConvertRunResultType_TwoWay(status) ==
    [type |-> IF status = "FINISHED" THEN "SUCCESS" ELSE "FAILURE",
     nativeResultType |-> platform]

ConvertRunResultType(status) ==
    IF status = "FINISHED"
    THEN [type |-> "SUCCESS", nativeResultType |-> platform]
    ELSE IF status = "FAILED"
    THEN [type |-> "FAILURE", nativeResultType |-> platform]
    ELSE [type |-> "SKIPPED", nativeResultType |-> platform]

\* a name put together with "_" whatever separator is configured
MlModelName_FixedSeparator(model_version) ==
    model_version.name \o "_" \o Str(model_version.version)

\* a name put together without a separator
MlModelName_NoSeparator(model_version) ==
    model_version.name \o Str(model_version.version)

\* f"{model_version.name}{self.config.model_name_separator}{model_version.version}"
MlModelName(model_version) ==
    model_version.name \o config.model_name_separator \o Str(model_version.version)

MakeMlModelUrn(model_version) ==
    BuilderMakeMlModelUrn(platform, MlModelName(model_version), config.env)

MakeExternalUrlFromRun(experiment, run) ==
    LET base_uri == client.tracking_uri IN
    IF StartsWith(base_uri, "http")
    THEN RStrip(base_uri, "/") \o "/#/experiments/" \o experiment.experiment_id
             \o "/runs/" \o run.info.run_id
    ELSE NoneStr

\* a mapper that emits the completion event whether the run has ended or not
RunHasEnded_Always(run) == TRUE

\* a mapper that takes a run for ended when it has a start time
RunHasEnded_Started(run) == TruthyInt(run.info.start_time)

\* if run.info.end_time:
RunHasEnded(run) == TruthyInt(run.info.end_time)

\* the DataProcessInstanceRunEventClass of a run that has ended
RunEvent(run) ==
    [status |-> "COMPLETE",
     timestampMillis |-> run.info.end_time,
     result |-> [type |-> ConvertRunResultType(run.info.status).type,
                 nativeResultType |-> platform],
     durationMillis |-> run.info.end_time - run.info.start_time]

\* _get_run_workunits up to the lookup of the run's model versions
RunWorkunitsHead(experiment, run, now) ==
    LET experiment_key ==
            ContainerKeyWithId(DataPlatformUrn(platform), experiment.name)
        urn == DataProcessInstanceUrn(run.info.run_id, platform)
        created_time == OrInt(run.info.start_time, now)
        created_actor ==
            IF TruthyStr(run.info.user_id)
            THEN "urn:li:platformResource:" \o run.info.user_id ELSE ""
    IN
    << CreateWorkunit(urn, "dataProcessInstanceProperties",
           [name |-> OrStr(run.info.run_name, run.info.run_id),
            created |-> [time |-> created_time, actor |-> created_actor],
            externalUrl |-> MakeExternalUrlFromRun(experiment, run),
            customProperties |-> <<>>]),
       CreateWorkunit(urn, "container",
           [container |-> ContainerKeyAsUrn(experiment_key)]) >>

\* a mapper that yields the training-run properties before the output reference
RunWorkunitsTail_PropertiesFirst(experiment, run, model_versions) ==
    LET urn == DataProcessInstanceUrn(run.info.run_id, platform) IN
    << CreateWorkunit(urn, "mlTrainingRunProperties",
           [hyperParams |-> GetRunParams(run),
            trainingMetrics |-> GetRunMetrics(run),
            outputUrls |-> <<run.info.artifact_uri>>,
            id |-> run.info.run_id]) >>
    \o (IF model_versions # <<>>
        THEN << CreateWorkunit(urn, "dataProcessInstanceOutput",
                    [outputs |-> <<MakeMlModelUrn(model_versions[1])>>]) >>
        ELSE <<>>)
    \o (IF RunHasEnded(run)
        THEN << CreateWorkunit(urn, "dataProcessInstanceRunEvent", RunEvent(run)) >>
        ELSE <<>>)
    \o << CreateWorkunit(urn, "dataPlatformInstance",
              [platform |-> DataPlatformUrn(platform)]),
          CreateWorkunit(urn, "subTypes", [typeNames |-> <<"ML Training Run">>]) >>

\* a mapper whose output reference is the last model version of the lookup
RunWorkunitsTail_LastOutput(experiment, run, model_versions) ==
    LET urn == DataProcessInstanceUrn(run.info.run_id, platform) IN
    (IF model_versions # <<>>
     THEN << CreateWorkunit(urn, "dataProcessInstanceOutput",
                 [outputs |-> <<MakeMlModelUrn(model_versions[Len(model_versions)])>>]) >>
     ELSE <<>>)
    \o << CreateWorkunit(urn, "mlTrainingRunProperties",
              [hyperParams |-> GetRunParams(run),
               trainingMetrics |-> GetRunMetrics(run),
               outputUrls |-> <<run.info.artifact_uri>>,
               id |-> run.info.run_id]) >>
    \o (IF RunHasEnded(run)
        THEN << CreateWorkunit(urn, "dataProcessInstanceRunEvent", RunEvent(run)) >>
        ELSE <<>>)
    \o << CreateWorkunit(urn, "dataPlatformInstance",
              [platform |-> DataPlatformUrn(platform)]),
          CreateWorkunit(urn, "subTypes", [typeNames |-> <<"ML Training Run">>]) >>

\* _get_run_workunits from the lookup's result on
RunWorkunitsTail(experiment, run, model_versions) ==
    LET urn == DataProcessInstanceUrn(run.info.run_id, platform) IN
    (IF model_versions # <<>>
     THEN << CreateWorkunit(urn, "dataProcessInstanceOutput",
                 [outputs |-> <<MakeMlModelUrn(model_versions[1])>>]) >>
     ELSE <<>>)
    \o << CreateWorkunit(urn, "mlTrainingRunProperties",
              [hyperParams |-> GetRunParams(run),
               trainingMetrics |-> GetRunMetrics(run),
               outputUrls |-> <<run.info.artifact_uri>>,
               id |-> run.info.run_id]) >>
    \o (IF RunHasEnded(run)
        THEN << CreateWorkunit(urn, "dataProcessInstanceRunEvent", RunEvent(run)) >>
        ELSE <<>>)
    \o << CreateWorkunit(urn, "dataPlatformInstance",
              [platform |-> DataPlatformUrn(platform)]),
          CreateWorkunit(urn, "subTypes", [typeNames |-> <<"ML Training Run">>]) >>

\* _get_run_workunits: the workunits it yields, in order
GetRunWorkunits(experiment, run, model_versions, now) ==
    RunWorkunitsHead(experiment, run, now)
        \o RunWorkunitsTail(experiment, run, model_versions)

-----------------------------------------------------------------------------
(* Stage tags.                                                             *)

registered_model_stages_info ==
    << [name |-> "Production",
        description |-> "Production Stage for an ML model in MLflow Model Registry",
        color_hex |-> "#308613"],
       [name |-> "Staging",
        description |-> "Staging Stage for an ML model in MLflow Model Registry",
        color_hex |-> "#FACB66"],
       [name |-> "Archived",
        description |-> "Archived Stage for an ML model in MLflow Model Registry",
        color_hex |-> "#5D7283"],
       [name |-> "None",
        description |-> "None Stage for an ML model in MLflow Model Registry",
        color_hex |-> "#F2F4F5"] >>

LowerChar(c) ==
    CASE c = "A" -> "a" [] c = "B" -> "b" [] c = "C" -> "c" [] c = "D" -> "d"
      [] c = "E" -> "e" [] c = "F" -> "f" [] c = "G" -> "g" [] c = "H" -> "h"
      [] c = "I" -> "i" [] c = "J" -> "j" [] c = "K" -> "k" [] c = "L" -> "l"
      [] c = "M" -> "m" [] c = "N" -> "n" [] c = "O" -> "o" [] c = "P" -> "p"
      [] c = "Q" -> "q" [] c = "R" -> "r" [] c = "S" -> "s" [] c = "T" -> "t"
      [] c = "U" -> "u" [] c = "V" -> "v" [] c = "W" -> "w" [] c = "X" -> "x"
      [] c = "Y" -> "y" [] c = "Z" -> "z" [] OTHER -> c

\* s.lower()
RECURSIVE Lower(_)
Lower(s) ==
    IF Len(s) = 0 THEN ""
    ELSE LowerChar(SubSeq(s, 1, 1)) \o Lower(SubSeq(s, 2, Len(s)))

MakeStageTagName(stage_name) == platform \o "_" \o Lower(stage_name)

MakeStageTagUrn(stage_name) == MakeTagUrn(MakeStageTagName(stage_name))

\* _get_tags_workunits: one tag definition for each stage, in the table's order
GetTagsWorkunits ==
    [i \in 1..Len(registered_model_stages_info) |->
        LET stage_info == registered_model_stages_info[i] IN
        CreateWorkunit(MakeStageTagUrn(stage_info.name), "tagProperties",
            [name |-> MakeStageTagName(stage_info.name),
             description |-> stage_info.description,
             colorHex |-> stage_info.color_hex])]

-----------------------------------------------------------------------------
(* Entity mappers: registered models and model versions.                   *)

\* None, for a Run
NoRun == [none |-> TRUE]

\* a lookup that asks for the run whether or not the model version names one
GetMlflowRun_Always(model_version, stored) == stored

\* _get_mlflow_run, stored being the run client.get_run(model_version.run_id)
\* returns
GetMlflowRun(model_version, stored) ==
    IF TruthyStr(model_version.run_id) THEN stored ELSE NoRun

\* the client.get_run calls _get_mlflow_run makes
GetRunCalls(model_version, stored) ==
    IF GetMlflowRun(model_version, stored) # NoRun
    THEN << [search_func |-> "get_run", page_token |-> NoneStr,
             kwargs |-> << <<"run_id", model_version.run_id>> >>, emitted |-> 0,
             raised |-> FALSE, items |-> <<stored>>, token |-> NoneStr] >>
    ELSE <<>>

GetLatestVersion(registered_model) ==
    IF registered_model.latest_versions # <<>>
    THEN Str(registered_model.latest_versions[1].version)
    ELSE NoneStr

MakeMlModelGroupUrn(registered_model) ==
    BuilderMakeMlModelGroupUrn(platform, registered_model.name, config.env)

GetMlGroupWorkunit(registered_model) ==
    CreateWorkunit(MakeMlModelGroupUrn(registered_model), "mlModelGroupProperties",
        [customProperties |-> registered_model.tags,
         description |-> registered_model.description,
         created |-> [time |-> registered_model.creation_timestamp,
                      actor |-> NoneStr],
         lastModified |-> [time |-> registered_model.last_updated_timestamp,
                           actor |-> NoneStr],
         version |-> [versionTag |-> GetLatestVersion(registered_model),
                      metadataAttribution |->
                          [time |-> registered_model.last_updated_timestamp,
                           actor |-> "urn:li:corpuser:datahub"]]])

GetVersionSetUrn(registered_model) == VersionSetUrn(registered_model.name, "mlModel")

\* registered_model.latest_versions[0] raises IndexError on an empty list
VersionLatestRaises(registered_model) == registered_model.latest_versions = <<>>

\* a version-set record that points at the last element of latest_versions
GetVersionLatest_Last(registered_model, version_set_urn) ==
    LET latest_model_version ==
            registered_model.latest_versions[Len(registered_model.latest_versions)]
    IN
    CreateWorkunit(version_set_urn, "versionSetProperties",
        [latest |-> MakeMlModelUrn(latest_model_version),
         versioningScheme |-> "LEXICOGRAPHIC_STRING"])

GetVersionLatest(registered_model, version_set_urn) ==
    LET latest_model_version == registered_model.latest_versions[1] IN
    CreateWorkunit(version_set_urn, "versionSetProperties",
        [latest |-> MakeMlModelUrn(latest_model_version),
         versioningScheme |-> "LEXICOGRAPHIC_STRING"])

\* a sort key that is the decimal form as it is
ZFill_NoPadding(s, width) == s

\* s.zfill(width), s without a sign
RECURSIVE ZFill(_, _)
ZFill(s, width) == IF Len(s) >= width THEN s ELSE ZFill("0" \o s, width)

SortIdWidth == 10

GetMlModelVersionPropertiesWorkunit(model_version, version_set_urn) ==
    CreateWorkunit(MakeMlModelUrn(model_version), "versionProperties",
        [version |-> [versionTag |-> Str(model_version.version),
                      metadataAttribution |->
                          [time |-> model_version.creation_timestamp,
                           actor |-> "urn:li:corpuser:datahub"]],
         versionSet |-> version_set_urn,
         sortId |-> ZFill(Str(model_version.version), SortIdWidth),
         aliases |-> [i \in 1..Len(model_version.aliases) |->
                         [versionTag |-> model_version.aliases[i]]]])

GetBaseExternalUrlFromTrackingUri ==
    IF StartsWith(client.tracking_uri, "http") THEN client.tracking_uri ELSE NoneStr

\* a link that joins base and path without stripping the base's trailing slashes
MakeExternalUrl_NoStrip(model_version) ==
    LET base_uri == OrStr(config.base_external_url, GetBaseExternalUrlFromTrackingUri) IN
    IF TruthyStr(base_uri)
    THEN base_uri \o "/#/models/" \o model_version.name
             \o "/versions/" \o Str(model_version.version)
    ELSE NoneStr

MakeExternalUrl(model_version) ==
    LET base_uri == OrStr(config.base_external_url, GetBaseExternalUrlFromTrackingUri) IN
    IF TruthyStr(base_uri)
    THEN RStrip(base_uri, "/") \o "/#/models/" \o model_version.name
             \o "/versions/" \o Str(model_version.version)
    ELSE NoneStr

\* None, for the hyperParams and trainingMetrics lists
NoneList == <<[none |-> TRUE]>>

GetMlModelPropertiesWorkunit(registered_model, model_version, run) ==
    LET has_run == run # NoRun
        created_actor ==
            IF TruthyStr(model_version.user_id)
            THEN "urn:li:platformResource:" \o model_version.user_id ELSE NoneStr
    IN
    CreateWorkunit(MakeMlModelUrn(model_version), "mlModelProperties",
        [customProperties |-> model_version.tags,
         externalUrl |-> MakeExternalUrl(model_version),
         lastModified |-> [time |-> model_version.last_updated_timestamp,
                           actor |-> NoneStr],
         description |-> model_version.description,
         created |-> [time |-> model_version.creation_timestamp,
                      actor |-> created_actor],
         hyperParams |-> IF has_run THEN GetRunParams(run) ELSE NoneList,
         trainingMetrics |-> IF has_run THEN GetRunMetrics(run) ELSE NoneList,
         tags |-> [i \in 1..Len(model_version.tags) |->
                      model_version.tags[i][1] \o ":" \o model_version.tags[i][2]],
         groups |-> <<MakeMlModelGroupUrn(registered_model)>>,
         trainingJobs |-> IF has_run
                          THEN <<DataProcessInstanceUrn(run.info.run_id, platform)>>
                          ELSE <<>>])

\* a tag association that names the stage as MLflow writes it, not lowercased
GetGlobalTagsWorkunit_RawStage(model_version) ==
    CreateWorkunit(MakeMlModelUrn(model_version), "globalTags",
        [tags |-> <<[tag |-> MakeTagUrn(platform \o "_" \o model_version.current_stage)]>>])

GetGlobalTagsWorkunit(model_version) ==
    CreateWorkunit(MakeMlModelUrn(model_version), "globalTags",
        [tags |-> <<[tag |-> MakeStageTagUrn(model_version.current_stage)]>>])

\* the three workunits of one pass of the loop over a model's versions
ModelVersionWorkunits(registered_model, model_version, run) ==
    << GetMlModelPropertiesWorkunit(registered_model, model_version, run),
       GetMlModelVersionPropertiesWorkunit(model_version,
           GetVersionSetUrn(registered_model)),
       GetGlobalTagsWorkunit(model_version) >>

\* The continuation tokens of the tracking system, and its empty ones.
PageToken(i) == "tok" \o ToString(i)

EndTokens == {NoneStr, ""}

\* a generator that was never created
IdleGen == [TraverseStart("", "") EXCEPT !.at = "idle"]

-----------------------------------------------------------------------------
(* The entities the tracking system serves.                                *)

ExperimentTags ==
    { <<>>,
      << <<NoteTag, "about">> >>,
      << <<"team", "ml">> >>,
      << <<NoteTag, "about">>, <<"team", "ml">> >>,
      << <<"team", "ml">>, <<NoteTag, "about">> >> }

Experiment(experiment_id, tags) ==
    [experiment_id |-> experiment_id, name |-> "exp" \o experiment_id,
     artifact_location |-> "s3://artifacts/" \o experiment_id, tags |-> tags]

Experiments == {Experiment(id, tags) : id \in {"1", "2"}, tags \in ExperimentTags}

RunStatuses == {"RUNNING", "SCHEDULED", "FINISHED", "FAILED", "KILLED"}

\* RunInfo.start_time is an int, 0 when the run was created without one;
\* RunInfo.end_time is None until the run ends, and a timestamp from then on.
RunInfos(run_id, experiment_id) ==
    [run_id : {run_id}, experiment_id : {experiment_id},
     run_name : {NoneStr, "trial"}, user_id : {NoneStr, "alice"},
     status : RunStatuses, start_time : {0, 1000}, end_time : {NoneInt, 1500},
     artifact_uri : {"s3://artifacts/" \o experiment_id \o "/" \o run_id}]

RunData ==
    [metrics |-> << <<"accuracy", 97>>, <<"loss", 3>> >>,
     params |-> << <<"depth", "8">> >>]

Runs(run_id, experiment_id) ==
    {[info |-> info, data |-> RunData] : info \in RunInfos(run_id, experiment_id)}

\* The run client.get_run(run_id) returns.
GetRun(run_id) ==
    [info |-> [run_id |-> run_id, experiment_id |-> "1", run_name |-> "trial",
               user_id |-> "alice", status |-> "FINISHED", start_time |-> 1000,
               end_time |-> 1500,
               artifact_uri |-> "s3://artifacts/1/" \o run_id],
     data |-> RunData]

Stages == {registered_model_stages_info[i].name :
           i \in 1..Len(registered_model_stages_info)}

ModelNames == {"foo", "foo_1"}

\* ModelVersion.version is a positive number; str(version) is its decimal form
ModelVersion(name, version, run_id, current_stage, tags) ==
    [name |-> name, version |-> version, run_id |-> run_id,
     current_stage |-> current_stage, description |-> "a model version",
     tags |-> tags, creation_timestamp |-> 2000, last_updated_timestamp |-> 2500,
     user_id |-> IF run_id = NoneStr THEN NoneStr ELSE "alice",
     aliases |-> IF current_stage = "Production" THEN <<"champion">> ELSE <<>>]

ModelVersions ==
    {ModelVersion(name, version, run_id, stage, tags) :
        name \in ModelNames, version \in 1..MaxVersion,
        run_id \in {NoneStr, "r1"}, stage \in Stages,
        tags \in {<<>>, << <<"framework", "sklearn">> >>}}

RegisteredModel(name, latest_versions) ==
    [name |-> name, description |-> "a registered model",
     tags |-> << <<"owner", "ml">> >>, creation_timestamp |-> 2000,
     last_updated_timestamp |-> 2500, latest_versions |-> latest_versions]

\* The model versions a lookup by run identifier may return.
RunModelVersions(run_id) ==
    { <<>>,
      << ModelVersion("foo", 1, run_id, "Staging", <<>>) >>,
      << ModelVersion("foo", 2, run_id, "None", <<>>),
         ModelVersion("foo", 1, run_id, "Staging", <<>>) >> }

\* None, for an entity
NoEntity == [none |-> TRUE]

GenNames == {"experiments", "runs", "model_versions", "registered_models"}

NoRemote == [experiments |-> <<>>, registered_models |-> <<>>]

NoGens == [n \in GenNames |-> IdleGen]

NoLocals ==
    [i |-> 0, experiment |-> NoEntity, run |-> NoEntity, now |-> 0,
     model_versions |-> <<>>, registered_model |-> NoEntity, yielded |-> FALSE]

-----------------------------------------------------------------------------
(* The example entity classes (metadata-ingestion/examples/ml/entities):   *)
(* the class attributes of Experiment and Run, and their instances.  A     *)
(* list-valued attribute is None or a list object; an instance is its      *)
(* class and its __dict__.                                                 *)

PyNone == [none |-> TRUE, items |-> <<>>]

PyList(items) == [none |-> FALSE, items |-> items]

\* class Experiment: run_ids: List[str] = None
ExperimentClass == [run_ids |-> PyNone]

\* class Run: models = [], input_datasets = [], output_datasets = []
RunClass ==
    [models |-> PyList(<<>>), input_datasets |-> PyList(<<>>),
     output_datasets |-> PyList(<<>>)]

NoCall == [n |-> 0, op |-> "none", self |-> 0, arg |-> "", raised |-> "none",
           returned |-> 0]

\* no example script is running
ExamplesNotLoaded ==
    /\ main = "none"
    /\ class_attrs = [Experiment |-> ExperimentClass, Run |-> RunClass]
    /\ objects = <<>>
    /\ outcome = NoCall
    /\ catalog = <<>>

-----------------------------------------------------------------------------
(* The mappers on their own: one entity, taken from the sets above, and    *)
(* the mapper of its kind applied to it, up to MaxApplications times.      *)

NoSubject == [kind |-> "none"]

Nows == {9000}

RunSubjects ==
    {[kind |-> "run", experiment |-> Experiment("1", <<>>), run |-> run,
      model_versions |-> model_versions] :
        run \in Runs("r1", "1"), model_versions \in RunModelVersions("r1")}

\* The run the tracking system holds under the run identifier "r1".
StoredRuns ==
    {GetRun("r1"),
     [GetRun("r1") EXCEPT !.data = [metrics |-> << <<"auc", 88>> >>,
                                    params |-> << <<"depth", "4">>, <<"lr", "0.1">> >>]]}

ModelVersionSubjects ==
    {[kind |-> "model_version",
      registered_model |-> RegisteredModel(model_version.name, <<model_version>>),
      model_version |-> model_version,
      run |-> run] :
        model_version \in ModelVersions, run \in StoredRuns}

\* An experiment object, and a copy of it as the search delivered it.
ExperimentSubjects ==
    {[kind |-> "experiment", experiment |-> experiment, delivered |-> experiment] :
        experiment \in Experiments}

\* RegisteredModel.latest_versions: the latest version of each stage that has
\* one, a version being in one stage only.
LatestVersions(name) ==
    LET Latest == {ModelVersion(name, version, NoneStr, stage, <<>>) :
                      version \in 1..MaxVersion, stage \in Stages}
    IN {<<>>} \cup {<<mv>> : mv \in Latest}
         \cup {pair \in Latest \X Latest :
                 /\ pair[1].version # pair[2].version
                 /\ pair[1].current_stage # pair[2].current_stage}

RegisteredModelSubjects ==
    UNION {{[kind |-> "registered_model",
             registered_model |-> RegisteredModel(name, latest_versions)] :
               latest_versions \in LatestVersions(name)} : name \in ModelNames}

\* Two model versions of the registry, of the same registered model or of
\* two, with version numbers of one, two and ten digits.
PairNames == ModelNames \cup {"foo1"}

PairVersions == {1, 2, 10, 11, 1000000000, 2147483647}

ModelVersionPairSubjects ==
    {[kind |-> "model_version_pair",
      model_versions |-> << ModelVersion(name1, version1, NoneStr, "None", <<>>),
                            ModelVersion(name2, version2, NoneStr, "None", <<>>) >>] :
        name1 \in PairNames, version1 \in PairVersions,
        name2 \in PairNames, version2 \in PairVersions}

SeparatorConfigs ==
    {[DefaultConfig EXCEPT !.model_name_separator = separator] :
        separator \in Separators}

Subjects ==
    RunSubjects \cup ModelVersionSubjects \cup ExperimentSubjects
        \cup RegisteredModelSubjects

InitM ==
    /\ ExamplesNotLoaded
    /\ \/ config \in Configs /\ subject \in Subjects
       \/ config \in SeparatorConfigs /\ subject \in ModelVersionPairSubjects
    /\ client = MlflowClient(config, LocalTrackingUri)
    /\ workunits = <<>>
    /\ source = <<>>
    /\ gen = IdleGen
    /\ consumer = "none"
    /\ delivered = <<>>
    /\ fetches = <<>>
    /\ remote = NoRemote
    /\ pc = "none"
    /\ gens = NoGens
    /\ locals = NoLocals
    /\ out = <<>>
    /\ calls = <<>>
    /\ taken = <<>>

\* list(self._get_run_workunits(experiment, run)), the lookup returning model_versions
MapRun ==
    /\ subject.kind = "run"
    /\ Len(workunits) < MaxApplications
    /\ \E now \in Nows :
         workunits' = Append(workunits,
             GetRunWorkunits(subject.experiment, subject.run,
                             subject.model_versions, now))
    /\ UNCHANGED <<evars, config, client, subject, tvars, pvars>>

\* one pass of the loop over a model's versions, for one model version:
\* run = self._get_mlflow_run(model_version), then the three workunits
MapModelVersion ==
    /\ subject.kind = "model_version"
    /\ Len(workunits) < MaxApplications
    /\ workunits' = Append(workunits,
           ModelVersionWorkunits(subject.registered_model, subject.model_version,
               GetMlflowRun(subject.model_version, subject.run)))
    /\ calls' = calls \o GetRunCalls(subject.model_version, subject.run)
    /\ UNCHANGED <<evars, config, client, subject, tvars, remote, pc, gens, locals, out,
                   taken>>

\* list(self._get_experiment_container_workunit(experiment)), on the
\* experiment object as the applications before left it
MapExperiment ==
    /\ subject.kind = "experiment"
    /\ Len(workunits) < MaxApplications
    /\ workunits' = Append(workunits, GetExperimentContainerWorkunit(subject.experiment))
    /\ subject' = [subject EXCEPT !.experiment =
           ExperimentAfterWorkunit(@, 2)]
    /\ UNCHANGED <<evars, config, client, tvars, pvars>>

\* self._get_version_latest(registered_model, self._get_version_set_urn(registered_model)):
\* the workunit it returns, or the IndexError of latest_versions[0]
MapVersionLatest ==
    /\ subject.kind = "registered_model"
    /\ pc = "none"
    /\ Len(workunits) < MaxApplications
    /\ IF VersionLatestRaises(subject.registered_model)
       THEN pc' = "error" /\ UNCHANGED workunits
       ELSE /\ workunits' = Append(workunits,
                   <<GetVersionLatest(subject.registered_model,
                                      GetVersionSetUrn(subject.registered_model))>>)
            /\ UNCHANGED pc
    /\ UNCHANGED <<evars, config, client, subject, tvars, remote, gens, locals, out,
                   calls, taken>>

\* the loop over model versions, for two of them one after the other, each
\* with its registered model and without a run
MapModelVersionPair ==
    /\ subject.kind = "model_version_pair"
    /\ Len(workunits) < MaxApplications
    /\ workunits' = Append(workunits,
           Flatten([i \in 1..2 |->
               LET model_version == subject.model_versions[i] IN
               ModelVersionWorkunits(
                   RegisteredModel(model_version.name, <<model_version>>),
                   model_version, GetMlflowRun(model_version, NoRun))]))
    /\ UNCHANGED <<evars, config, client, subject, tvars, pvars>>

NextM ==
    \/ MapRun
    \/ MapModelVersion
    \/ MapExperiment
    \/ MapVersionLatest
    \/ MapModelVersionPair

SpecM == InitM /\ [][NextM]_vars

-----------------------------------------------------------------------------
(* Properties of the mappers.                                              *)

Select(wus, aspectName) == SelectSeq(wus, LAMBDA wu : wu.aspectName = aspectName)

\* The external-URL construction rule: the configured base URL when there is
\* one, else the client's tracking URI when it begins with "http", else no
\* base at all.
RuleBase ==
    IF TruthyStr(config.base_external_url) THEN config.base_external_url
    ELSE IF StartsWith(client.tracking_uri, "http") THEN client.tracking_uri
    ELSE NoneStr

RunPath == "/#/experiments/" \o subject.experiment.experiment_id
               \o "/runs/" \o subject.run.info.run_id

ModelVersionPath == "/#/models/" \o subject.model_version.name
                        \o "/versions/" \o Str(subject.model_version.version)

\* C3: the external link of a run is the rule's base (trailing slashes
\* aside) followed by /#/experiments/{experimentId}/runs/{runId}, and is
\* absent when the rule gives no base.
C3_RunLinkFollowsRule ==
    subject.kind = "run" =>
        \A i \in 1..Len(workunits) :
            Select(workunits[i], "dataProcessInstanceProperties")[1].aspect.externalUrl
                = IF RuleBase = NoneStr THEN NoneStr
                  ELSE RStrip(RuleBase, "/") \o RunPath

\* C4 as stated: the external link of a model version is the rule's base
\* followed by /#/models/{name}/versions/{version}, and is absent when the
\* rule gives no base.
C4_ModelVersionLinkIsBaseThenPath ==
    subject.kind = "model_version" =>
        \A i \in 1..Len(workunits) :
            Select(workunits[i], "mlModelProperties")[1].aspect.externalUrl
                = IF RuleBase = NoneStr THEN NoneStr
                  ELSE RuleBase \o ModelVersionPath

\* C4, amended: the external link of a model version is the rule's base
\* with its trailing slashes removed, followed by
\* /#/models/{name}/versions/{version}; base http://host, name foo and
\* version 3 give http://host/#/models/foo/versions/3; the link is absent when
\* the rule gives no base.
C4_ModelVersionLinkStripsBase ==
    subject.kind = "model_version" =>
        \A i \in 1..Len(workunits) :
            LET link == Select(workunits[i], "mlModelProperties")[1].aspect.externalUrl
            IN
            /\ link = IF RuleBase = NoneStr THEN NoneStr
                      ELSE RStrip(RuleBase, "/") \o ModelVersionPath
            /\ (/\ config.base_external_url = "http://host"
                /\ subject.model_version.name = "foo"
                /\ subject.model_version.version = 3)
               => link = "http://host/#/models/foo/versions/3"
            /\ (/\ ~TruthyStr(config.base_external_url)
                /\ ~StartsWith(client.tracking_uri, "http"))
               => link = NoneStr

C4_Witness ==
    /\ subject.kind = "model_version"
    /\ Len(workunits) = 1
    /\ config.base_external_url = "http://host/"
    /\ client.tracking_uri = "https://trk:5000/"
    /\ workunits[1][1].aspect.externalUrl = "http://host/#/models/foo/versions/3"

\* C9: the workunits of a run hold a completion event exactly when the run
\* has an end time, and never more than one; the event has status COMPLETE,
\* the end time as its timestamp and end time minus start time as its
\* duration (500 for start 1000 and end 1500).
C9_CompletionEventIffEnded ==
    subject.kind = "run" =>
        \A i \in 1..Len(workunits) :
            LET events == Select(workunits[i], "dataProcessInstanceRunEvent")
                info == subject.run.info
            IN
            /\ Len(events) = IF info.end_time # NoneInt THEN 1 ELSE 0
            /\ \A j \in 1..Len(events) :
                 /\ events[j].aspect.status = "COMPLETE"
                 /\ events[j].aspect.timestampMillis = info.end_time
                 /\ events[j].aspect.durationMillis = info.end_time - info.start_time
                 /\ (info.start_time = 1000 /\ info.end_time = 1500)
                    => events[j].aspect.durationMillis = 500

C9_Witness ==
    /\ subject.kind = "run"
    /\ Len(workunits) = 1
    /\ subject.run.info.start_time = 1000
    /\ subject.run.info.end_time = 1500
    /\ Select(workunits[1], "dataProcessInstanceRunEvent")[1].aspect.durationMillis = 500

\* C10: the result of a run's completion event is SUCCESS for status
\* FINISHED, FAILURE for FAILED and SKIPPED for every other status, and its
\* native result type is the platform name.
C10_ResultIsThreeWay ==
    subject.kind = "run" =>
        \A i \in 1..Len(workunits) :
            LET events == Select(workunits[i], "dataProcessInstanceRunEvent")
                status == subject.run.info.status
            IN
            \A j \in 1..Len(events) :
                /\ events[j].aspect.result.type =
                       CASE status = "FINISHED" -> "SUCCESS"
                         [] status = "FAILED" -> "FAILURE"
                         [] status \in {"KILLED", "RUNNING", "SCHEDULED"} -> "SKIPPED"
                /\ events[j].aspect.result.nativeResultType = "mlflow"

C10_Witness ==
    /\ subject.kind = "run"
    /\ Len(workunits) = 1
    /\ subject.run.info.status = "KILLED"
    /\ Select(workunits[1], "dataProcessInstanceRunEvent") # <<>>
    /\ Select(workunits[1], "dataProcessInstanceRunEvent")[1].aspect.result.type
           = "SKIPPED"

\* The identifier of a model version: the model URN of the platform, the
\* name, separator and version put together, and the environment.
IdentifierOf(model_version) ==
    "urn:li:mlModel:(urn:li:dataPlatform:mlflow," \o model_version.name
        \o config.model_name_separator \o ToString(model_version.version)
        \o "," \o config.env \o ")"

\* C11: the version-set record of a registered model has, as "latest", the
\* identifier of the first element of the model's latest-versions list and of
\* no other element of it (for [v3, v1] that of v3, not that of v1), and its
\* versioning scheme is the lexicographic one.
C11_LatestIsFirstOfLatestVersions ==
    subject.kind = "registered_model" =>
        \A i \in 1..Len(workunits) :
            LET latest_versions == subject.registered_model.latest_versions
                record == workunits[i][1]
            IN
            /\ Len(workunits[i]) = 1
            /\ record.aspectName = "versionSetProperties"
            /\ record.aspect.latest = IdentifierOf(latest_versions[1])
            /\ \A k \in 2..Len(latest_versions) :
                   record.aspect.latest # IdentifierOf(latest_versions[k])
            /\ record.aspect.versioningScheme = "LEXICOGRAPHIC_STRING"

C11_Witness ==
    /\ subject.kind = "registered_model"
    /\ Len(workunits) = 1
    /\ Len(subject.registered_model.latest_versions) = 2
    /\ subject.registered_model.latest_versions[1].version = 3
    /\ subject.registered_model.latest_versions[2].version = 1
    /\ config.model_name_separator = "_"
    /\ workunits[1][1].aspect.latest
           = "urn:li:mlModel:(urn:li:dataPlatform:mlflow,foo_3,PROD)"

\* C12: the identifier of a model version is made of the platform, the
\* registered model's name, the configured separator, the version number and
\* the environment only, its name component being name + separator + version
\* (foo, 2 and _ give foo_2); every record of the model version carries it,
\* and mapping the same model version a second time gives the same identifier.
C12_IdentifierIsNameSeparatorVersion ==
    subject.kind = "model_version" =>
        /\ \A i \in 1..Len(workunits) : \A k \in 1..Len(workunits[i]) :
               workunits[i][k].entityUrn = IdentifierOf(subject.model_version)
        /\ \A i, j \in 1..Len(workunits) :
               workunits[i][1].entityUrn = workunits[j][1].entityUrn
        /\ (/\ workunits # <<>>
            /\ subject.model_version.name = "foo"
            /\ subject.model_version.version = 2
            /\ config.model_name_separator = "_")
           => workunits[1][1].entityUrn
                  = "urn:li:mlModel:(urn:li:dataPlatform:mlflow,foo_2," \o config.env \o ")"

C12_Witness ==
    /\ subject.kind = "model_version"
    /\ Len(workunits) = 2
    /\ subject.model_version.name = "foo"
    /\ subject.model_version.version = 2
    /\ config.model_name_separator = "_"
    /\ config.env = "DEV"
    /\ workunits[2][3].entityUrn = "urn:li:mlModel:(urn:li:dataPlatform:mlflow,foo_2,DEV)"

\* The items of a dict, and whether a sequence of pairs is one (no key twice).
DictItems(d) == {d[i] : i \in 1..Len(d)}

IsDict(d) == \A i, j \in 1..Len(d) : d[i][1] = d[j][1] => i = j

AspectNames(wus) == [k \in 1..Len(wus) |-> wus[k].aspectName]

\* C13: mapped as the search delivered it, an experiment gives exactly four
\* records on one container identifier, in the order container-subtype,
\* container-properties, browse-path (empty), platform-instance; the
\* container-properties record has the note tag as description (none when the
\* experiment has no note tag) and, as custom properties, every tag but the
\* note tag, plus artifacts_location with the experiment's artifact location.
C13_ExperimentGivesFourRecords ==
    (subject.kind = "experiment" /\ workunits # <<>>) =>
        LET experiment == subject.delivered
            records == workunits[1]
            properties == records[2].aspect
        IN
        /\ AspectNames(records) = <<"subTypes", "containerProperties",
                                    "browsePathsV2", "dataPlatformInstance">>
        /\ \A k \in 1..4 : records[k].entityUrn = records[1].entityUrn
        /\ records[3].aspect.path = <<>>
        /\ properties.name = experiment.name
        /\ \A tag \in DictItems(experiment.tags) :
               tag[1] = NoteTag => properties.description = tag[2]
        /\ (\A tag \in DictItems(experiment.tags) : tag[1] # NoteTag)
               => properties.description = NoneStr
        /\ IsDict(properties.customProperties)
        /\ DictItems(properties.customProperties)
               = {tag \in DictItems(experiment.tags) : tag[1] # NoteTag}
                   \cup {<<"artifacts_location", experiment.artifact_location>>}

C13_Witness ==
    /\ subject.kind = "experiment"
    /\ Len(workunits) = 1
    /\ DictItems(subject.delivered.tags) = {<<NoteTag, "about">>, <<"team", "ml">>}
    /\ workunits[1][2].aspect.description = "about"
    /\ DictItems(workunits[1][2].aspect.customProperties)
           = {<<"team", "ml">>, <<"artifacts_location", "s3://artifacts/1">>}

\* C15: the experiment mapper is a pure function of the experiment: applied
\* twice to the same experiment object it gives the same records both times,
\* with the same description and the same custom properties.
C15_ExperimentMapperIsPure ==
    (subject.kind = "experiment" /\ Len(workunits) = 2) =>
        /\ AspectNames(workunits[1]) = AspectNames(workunits[2])
        /\ \A k \in 1..Len(workunits[1]) :
               workunits[1][k].entityUrn = workunits[2][k].entityUrn
        /\ workunits[1][2].aspect.description = workunits[2][2].aspect.description
        /\ DictItems(workunits[1][2].aspect.customProperties)
               = DictItems(workunits[2][2].aspect.customProperties)

\* The record kinds of a run in order, the output reference coming before
\* the training-run properties or after them.
RunRecordOrder(has_output, has_ended, output_first) ==
    LET output == IF has_output THEN <<"dataProcessInstanceOutput">> ELSE <<>>
        event == IF has_ended THEN <<"dataProcessInstanceRunEvent">> ELSE <<>>
    IN
    <<"dataProcessInstanceProperties", "container">>
        \o (IF output_first THEN output \o <<"mlTrainingRunProperties">>
            ELSE <<"mlTrainingRunProperties">> \o output)
        \o event \o <<"dataPlatformInstance", "subTypes">>

\* C16 as stated: the records of a run come in the order process-instance
\* properties, container-membership, training-run properties, output
\* reference (if any), completion event (if any), platform-instance, subtype.
C16_RunRecordsPropertiesBeforeOutput ==
    subject.kind = "run" =>
        \A i \in 1..Len(workunits) :
            AspectNames(workunits[i])
                = RunRecordOrder(subject.model_versions # <<>>,
                                 subject.run.info.end_time # NoneInt, FALSE)

\* C16, amended: the records of a run come in the order process-instance
\* properties, container-membership, output reference (if any), training-run
\* properties, completion event (if any), platform-instance, subtype, all on
\* the run's identifier; the output reference precedes the training-run
\* properties whenever both are emitted.
C16_RunRecordsOutputBeforeProperties ==
    subject.kind = "run" =>
        \A i \in 1..Len(workunits) :
            /\ AspectNames(workunits[i])
                   = RunRecordOrder(subject.model_versions # <<>>,
                                    subject.run.info.end_time # NoneInt, TRUE)
            /\ \A k \in 1..Len(workunits[i]) :
                   workunits[i][k].entityUrn = workunits[i][1].entityUrn

C16_Witness ==
    /\ subject.kind = "run"
    /\ Len(workunits) = 1
    /\ Len(subject.model_versions) = 2
    /\ subject.run.info.end_time = 1500
    /\ AspectNames(workunits[1])
           = <<"dataProcessInstanceProperties", "container",
               "dataProcessInstanceOutput", "mlTrainingRunProperties",
               "dataProcessInstanceRunEvent", "dataPlatformInstance", "subTypes">>

\* C18: the model-properties record of a model version that has a run
\* identifier carries the parameters and the metrics of that run, name by
\* name with the values as strings, and a training-job list holding only the
\* run's process-instance identifier, the run having been asked for once;
\* that of a model version without a run identifier has no hyperparameters,
\* no metrics and an empty training-job list, and no run was asked for.  In
\* both cases its group list holds only the registered model's group
\* identifier.
C18_ModelPropertiesFollowRun ==
    subject.kind = "model_version" =>
        /\ \A i \in 1..Len(workunits) :
               LET properties == workunits[i][1].aspect
                   data == subject.run.data
               IN
               /\ workunits[i][1].aspectName = "mlModelProperties"
               /\ properties.groups
                      = <<"urn:li:mlModelGroup:(urn:li:dataPlatform:mlflow,"
                            \o subject.registered_model.name \o "," \o config.env \o ")">>
               /\ IF subject.model_version.run_id # NoneStr
                  THEN /\ Len(properties.hyperParams) = Len(data.params)
                       /\ \A k \in 1..Len(data.params) :
                              /\ properties.hyperParams[k].name = data.params[k][1]
                              /\ properties.hyperParams[k].value = data.params[k][2]
                       /\ Len(properties.trainingMetrics) = Len(data.metrics)
                       /\ \A k \in 1..Len(data.metrics) :
                              /\ properties.trainingMetrics[k].name = data.metrics[k][1]
                              /\ properties.trainingMetrics[k].value
                                     = ToString(data.metrics[k][2])
                       /\ properties.trainingJobs
                              = <<DataProcessInstanceUrn(subject.run.info.run_id, platform)>>
                  ELSE /\ properties.hyperParams = NoneList
                       /\ properties.trainingMetrics = NoneList
                       /\ properties.trainingJobs = <<>>
        /\ Len(calls) = IF subject.model_version.run_id # NoneStr
                        THEN Len(workunits) ELSE 0
        /\ \A c \in 1..Len(calls) :
               calls[c].kwargs = << <<"run_id", subject.model_version.run_id>> >>

C18_Witness ==
    /\ subject.kind = "model_version"
    /\ Len(workunits) = 1
    /\ subject.model_version.run_id = "r1"
    /\ Len(calls) = 1
    /\ workunits[1][1].aspect.hyperParams
           = <<[name |-> "depth", value |-> "4"], [name |-> "lr", value |-> "0.1"]>>
    /\ workunits[1][1].aspect.trainingMetrics = <<[name |-> "auc", value |-> "88"]>>
    /\ Len(workunits[1][1].aspect.trainingJobs) = 1

\* c in s, c one character
HasChar(s, c) == \E i \in 1..Len(s) : SubSeq(s, i, i) = c

\* The separator requirement for a set of registered-model names: the
\* configured separator is not empty and shares no character with a name.
SeparatorIsSafe(names) ==
    /\ config.model_name_separator # ""
    /\ \A name \in names :
           \A i \in 1..Len(config.model_name_separator) :
               ~HasChar(name, SubSeq(config.model_name_separator, i, i))

\* C22: under the separator requirement (the separator is not empty and none
\* of its characters occurs in a registered-model name), two model versions
\* are given the same identifier only if they have the same registered-model
\* name and the same version number.
C22_IdentifiersUnambiguous ==
    (/\ subject.kind = "model_version_pair"
     /\ SeparatorIsSafe({subject.model_versions[1].name,
                         subject.model_versions[2].name})) =>
        \A a \in 1..Len(workunits) :
            workunits[a][1].entityUrn = workunits[a][4].entityUrn =>
                /\ subject.model_versions[1].name = subject.model_versions[2].name
                /\ subject.model_versions[1].version
                       = subject.model_versions[2].version

C22_Witness ==
    /\ subject.kind = "model_version_pair"
    /\ Len(workunits) = 1
    /\ config.model_name_separator = "-"
    /\ subject.model_versions[1].name = "foo"
    /\ subject.model_versions[1].version = 11
    /\ subject.model_versions[2].name = "foo1"
    /\ subject.model_versions[2].version = 1
    /\ workunits[1][1].entityUrn
           = "urn:li:mlModel:(urn:li:dataPlatform:mlflow,foo-11,PROD)"
    /\ workunits[1][4].entityUrn
           = "urn:li:mlModel:(urn:li:dataPlatform:mlflow,foo1-1,PROD)"

\* The code point of a decimal digit.
DigitCode(c) ==
    CASE c = "0" -> 48 [] c = "1" -> 49 [] c = "2" -> 50 [] c = "3" -> 51
      [] c = "4" -> 52 [] c = "5" -> 53 [] c = "6" -> 54 [] c = "7" -> 55
      [] c = "8" -> 56 [] c = "9" -> 57

\* s < t in the lexicographic order of strings of decimal digits
RECURSIVE LexLess(_, _)
LexLess(s, t) ==
    IF Len(t) = 0 THEN FALSE
    ELSE IF Len(s) = 0 THEN TRUE
    ELSE IF SubSeq(s, 1, 1) # SubSeq(t, 1, 1)
         THEN DigitCode(SubSeq(s, 1, 1)) < DigitCode(SubSeq(t, 1, 1))
         ELSE LexLess(SubSeq(s, 2, Len(s)), SubSeq(t, 2, Len(t)))

\* C23: the sort key of a model version is its version number in decimal,
\* left-padded with zeros to 10 characters; of two version numbers of at most
\* 10 digits the smaller one has the lexicographically smaller sort key, and
\* equal sort keys belong to equal version numbers.
C23_SortKeyPreservesOrder ==
    subject.kind = "model_version_pair" =>
        \A a \in 1..Len(workunits) :
            LET a_version == subject.model_versions[1].version
                b_version == subject.model_versions[2].version
                a_key == workunits[a][2].aspect.sortId
                b_key == workunits[a][5].aspect.sortId
            IN
            /\ workunits[a][2].aspectName = "versionProperties"
            /\ workunits[a][5].aspectName = "versionProperties"
            /\ Len(a_key) = 10
            /\ \E zeros \in 0..9 :
                   a_key = SubSeq("000000000", 1, zeros) \o ToString(a_version)
            /\ a_version < b_version => LexLess(a_key, b_key)
            /\ a_key = b_key => a_version = b_version

C23_Witness ==
    /\ subject.kind = "model_version_pair"
    /\ Len(workunits) = 1
    /\ subject.model_versions[1].version = 2
    /\ subject.model_versions[2].version = 10
    /\ workunits[1][2].aspect.sortId = "0000000002"
    /\ workunits[1][5].aspect.sortId = "0000000010"
    /\ ~LexLess(ToString(2), ToString(10))

-----------------------------------------------------------------------------
(* The tracking system behind the pipeline.  Each search runs over a list  *)
(* of entities and serves it in pages of any size; a page token names the  *)
(* offset the next page starts at.  A search may end before its list does  *)
(* (the list was that short).  In one pass the system serves at most       *)
(* MaxServed entities and at most MaxTokens continuation tokens.           *)

PipelineExperiments ==
    { Experiment("1", << <<NoteTag, "about">>, <<"team", "ml">> >>),
      Experiment("2", <<>>),
      Experiment("3", << <<"team", "ml">> >>) }

PipelineRuns(experiment_id) ==
    << [GetRun("r" \o experiment_id) EXCEPT !.info.experiment_id = experiment_id],
       [info |-> [run_id |-> "q" \o experiment_id, experiment_id |-> experiment_id,
                  run_name |-> NoneStr, user_id |-> NoneStr, status |-> "RUNNING",
                  start_time |-> 0, end_time |-> NoneInt,
                  artifact_uri |-> "s3://artifacts/" \o experiment_id \o "/q"],
        data |-> RunData] >>

PipelineModels ==
    { RegisteredModel("foo", << ModelVersion("foo", 3, "r1", "Production", <<>>),
                                ModelVersion("foo", 1, NoneStr, "Staging", <<>>) >>),
      RegisteredModel("bar", <<>>) }

PipelineModelVersions(name) ==
    << ModelVersion(name, 1, NoneStr, "Staging", <<>>),
       ModelVersion(name, 3, "r1", "Production", <<>>) >>

InjectiveSeqs(S, n) ==
    {q \in [1..n -> S] : \A i, j \in 1..n : i # j => q[i] # q[j]}

Remotes ==
    [experiments : InjectiveSeqs(PipelineExperiments, 2),
     registered_models : InjectiveSeqs(PipelineModels, 2)]

\* The generator the pipeline is driving at pc.
Active ==
    CASE pc = "experiments" -> "experiments"
      [] pc = "runs" -> "runs"
      [] pc = "run_lookup" -> "model_versions"
      [] pc = "models" -> "registered_models"
      [] pc = "model_list" -> "model_versions"
      [] OTHER -> "none"

\* The list a search runs over.
SearchList ==
    CASE pc = "experiments" -> remote.experiments
      [] pc = "runs" -> PipelineRuns(locals.experiment.experiment_id)
      [] pc = "run_lookup" ->
             << ModelVersion("foo", 1, locals.run.info.run_id, "Staging", <<>>),
                ModelVersion("foo", 2, locals.run.info.run_id, "None", <<>>) >>
      [] pc = "models" -> remote.registered_models
      [] pc = "model_list" -> PipelineModelVersions(locals.registered_model.name)

RECURSIVE SumLen(_)
SumLen(cs) == IF cs = <<>> THEN 0 ELSE Len(Head(cs).items) + SumLen(Tail(cs))

Served == SumLen(calls)

TokensServed == Len(SelectSeq(calls, LAMBDA c : ~c.raised /\ TruthyStr(c.token)))

Min(a, b) == IF a <= b THEN a ELSE b

\* The pages the system may serve for a page token.
ServablePages(list, page_token) ==
    LET offset == IF page_token = NoneStr THEN 0
                  ELSE CHOOSE k \in 0..Len(list) : PageToken(k) = page_token
    IN
    UNION {{[items |-> SubSeq(list, offset + 1, offset + n), token |-> token] :
               token \in {NoneStr} \cup
                   (IF TokensServed < MaxTokens THEN {PageToken(offset + n)} ELSE {})} :
           n \in 0..Min(Len(list) - offset, MaxServed - Served)}

\* A search call as logged: its arguments, how many workunits had been
\* yielded when it was made, and what it returned.
Logged(g, raised, paged_list) ==
    [search_func |-> g.search_func, page_token |-> g.next_page_token,
     kwargs |-> g.kwargs, emitted |-> Len(out), raised |-> raised,
     items |-> paged_list.items, token |-> paged_list.token]

NoPage == [items |-> <<>>, token |-> NoneStr]

\* An entity as a traversal delivered it, with the numbers of workunits
\* yielded and of search calls made by then.
Taken(kind, entity) ==
    [kind |-> kind, entity |-> entity, emitted |-> Len(out), called |-> Len(calls)]

-----------------------------------------------------------------------------
(* get_workunits_internal: the tag phase, the experiment phase and the     *)
(* model phase, one step for each search call and for each workunit        *)
(* yielded.                                                                *)

Init ==
    /\ ExamplesNotLoaded
    /\ config \in {DefaultConfig,
                    [DefaultConfig EXCEPT !.tracking_uri = "http://trk",
                                          !.base_external_url = "http://host/"]}
    /\ client = MlflowClient(config, LocalTrackingUri)
    /\ subject = NoSubject
    /\ workunits = <<>>
    /\ source = <<>>
    /\ gen = IdleGen
    /\ consumer = "none"
    /\ delivered = <<>>
    /\ fetches = <<>>
    /\ remote \in Remotes
    /\ pc = "tags"
    /\ gens = NoGens
    /\ locals = NoLocals
    /\ out = <<>>
    /\ calls = <<>>
    /\ taken = <<>>

Frame == <<evars, config, client, mvars, tvars, remote>>

Yield(wu) == out' = Append(out, wu)

\* a pass that extracts the registered models before the experiments
PhaseAfter_ModelsFirst(phase) ==
    CASE phase = "tags" -> "models"
      [] phase = "models" -> "experiments"
      [] phase = "experiments" -> "done"

\* get_workunits_internal: the phase whose generator is delegated to after
\* the generator of a phase is exhausted
PhaseAfter(phase) ==
    CASE phase = "tags" -> "experiments"
      [] phase = "experiments" -> "models"
      [] phase = "models" -> "done"

\* yield from the generator of a phase begins: the traversal of the phase's
\* entities is created (and no search made yet)
EnterPhase(phase) ==
    /\ pc' = phase
    /\ gens' = CASE phase = "experiments" ->
                      [gens EXCEPT !.experiments =
                          TraverseStart("search_experiments", <<>>)]
                 [] phase = "models" ->
                      [gens EXCEPT !.registered_models =
                          TraverseStart("search_registered_models", <<>>)]
                 [] OTHER -> gens

\* _get_tags_workunits, one tag at a time; then the next phase starts
EmitTag ==
    /\ pc = "tags"
    /\ Yield(GetTagsWorkunits[locals.i + 1])
    /\ IF locals.i + 1 < Len(GetTagsWorkunits)
       THEN /\ locals' = [locals EXCEPT !.i = @ + 1, !.yielded = TRUE]
            /\ UNCHANGED <<pc, gens>>
       ELSE /\ locals' = [locals EXCEPT !.i = 0, !.yielded = TRUE]
            /\ EnterPhase(PhaseAfter("tags"))
    /\ UNCHANGED <<Frame, calls, taken>>

\* search_func(page_token=next_page_token, **kwargs) returns a page
Search ==
    /\ Active # "none"
    /\ gens[Active].at = "call"
    /\ \E paged_list \in ServablePages(SearchList, gens[Active].next_page_token) :
         /\ calls' = Append(calls, Logged(gens[Active], FALSE, paged_list))
         /\ gens' = [gens EXCEPT ![Active] = TraverseGotPage(@, paged_list)]
    /\ locals' = [locals EXCEPT !.yielded = FALSE]
    /\ UNCHANGED <<Frame, pc, out, taken>>

\* a failed search taken for the end of the traversal
SearchRaises_Swallowed ==
    /\ Active # "none"
    /\ gens[Active].at = "call"
    /\ calls' = Append(calls, Logged(gens[Active], TRUE, NoPage))
    /\ gens' = [gens EXCEPT ![Active] = [@ EXCEPT !.at = "returned"]]
    /\ locals' = [locals EXCEPT !.yielded = FALSE]
    /\ UNCHANGED <<Frame, pc, out, taken>>

\* search_func(...) raises: nothing catches the exception on its way out of
\* get_workunits_internal
SearchRaises ==
    /\ Active # "none"
    /\ gens[Active].at = "call"
    /\ calls' = Append(calls, Logged(gens[Active], TRUE, NoPage))
    /\ gens' = [gens EXCEPT ![Active] = TraverseRaised(@)]
    /\ pc' = "error"
    /\ locals' = [locals EXCEPT !.yielded = FALSE]
    /\ UNCHANGED <<Frame, out, taken>>

\* the page's items are delivered: next_page_token = paged_list.token, and on
PageDone ==
    /\ Active # "none"
    /\ TraversePageDone(gens[Active])
    /\ gens' = [gens EXCEPT ![Active] = TraverseAdvance(@)]
    /\ locals' = [locals EXCEPT !.yielded = FALSE]
    /\ UNCHANGED <<Frame, pc, out, calls, taken>>

\* for experiment in experiments:
NextExperiment ==
    /\ pc = "experiments"
    /\ TraverseHasItem(gens.experiments)
    /\ gens' = [gens EXCEPT !.experiments = TraverseYielded(@)]
    /\ locals' = [locals EXCEPT !.experiment = TraverseItem(gens.experiments),
                                !.i = 0, !.yielded = FALSE]
    /\ taken' = Append(taken, Taken("experiment", TraverseItem(gens.experiments)))
    /\ pc' = "experiment_container"
    /\ UNCHANGED <<Frame, out, calls>>

\* yield from self._get_experiment_container_workunit(experiment), one
\* workunit at a time; then runs = self._get_mlflow_runs_from_experiment(experiment)
EmitExperimentWorkunit ==
    /\ pc = "experiment_container"
    /\ Yield(GetExperimentContainerWorkunit(locals.experiment)[locals.i + 1])
    /\ IF locals.i + 1 < Len(GetExperimentContainerWorkunit(locals.experiment))
       THEN /\ locals' = [locals EXCEPT
                   !.experiment = ExperimentAfterWorkunit(@, locals.i + 1),
                   !.i = @ + 1, !.yielded = TRUE]
            /\ UNCHANGED <<pc, gens>>
       ELSE /\ locals' = [locals EXCEPT
                   !.experiment = ExperimentAfterWorkunit(@, locals.i + 1),
                   !.i = 0, !.yielded = TRUE]
            /\ pc' = "runs"
            /\ gens' = [gens EXCEPT !.runs =
                   TraverseStart("search_runs",
                       << <<"experiment_ids", locals.experiment.experiment_id>> >>)]
    /\ UNCHANGED <<Frame, calls, taken>>

\* for run in runs:
NextRun ==
    /\ pc = "runs"
    /\ TraverseHasItem(gens.runs)
    /\ gens' = [gens EXCEPT !.runs = TraverseYielded(@)]
    /\ \E now \in Nows :
         locals' = [locals EXCEPT !.run = TraverseItem(gens.runs), !.now = now,
                                  !.i = 0, !.yielded = FALSE]
    /\ taken' = Append(taken, Taken("run", TraverseItem(gens.runs)))
    /\ pc' = "run_head"
    /\ UNCHANGED <<Frame, out, calls>>

\* _get_run_workunits up to model_versions = self.get_mlflow_model_versions_from_run(...)
EmitRunHead ==
    /\ pc = "run_head"
    /\ LET head == RunWorkunitsHead(locals.experiment, locals.run, locals.now) IN
       /\ Yield(head[locals.i + 1])
       /\ IF locals.i + 1 < Len(head)
          THEN /\ locals' = [locals EXCEPT !.i = @ + 1, !.yielded = TRUE]
               /\ UNCHANGED <<pc, gens>>
          ELSE /\ locals' = [locals EXCEPT !.i = 0, !.yielded = TRUE,
                                           !.model_versions = <<>>]
               /\ pc' = "run_lookup"
               /\ gens' = [gens EXCEPT !.model_versions =
                      TraverseStart("search_model_versions",
                          << <<"filter_string",
                               "run_id = '" \o locals.run.info.run_id \o "'">> >>)]
    /\ UNCHANGED <<Frame, calls, taken>>

\* list(model_versions) takes one more item of the traversal
ListTakes ==
    /\ pc \in {"run_lookup", "model_list"}
    /\ TraverseHasItem(gens.model_versions)
    /\ gens' = [gens EXCEPT !.model_versions = TraverseYielded(@)]
    /\ locals' = [locals EXCEPT
           !.model_versions = Append(@, TraverseItem(gens.model_versions)),
           !.yielded = FALSE]
    /\ taken' = Append(taken, Taken("model_version", TraverseItem(gens.model_versions)))
    /\ UNCHANGED <<Frame, pc, out, calls>>

\* get_mlflow_model_versions_from_run returns the list
LookupDone ==
    /\ pc = "run_lookup"
    /\ gens.model_versions.at = "returned"
    /\ pc' = "run_tail"
    /\ locals' = [locals EXCEPT !.i = 0, !.yielded = FALSE]
    /\ UNCHANGED <<Frame, gens, out, calls, taken>>

\* the rest of _get_run_workunits, one workunit at a time
EmitRunTail ==
    /\ pc = "run_tail"
    /\ LET tail == RunWorkunitsTail(locals.experiment, locals.run,
                                    locals.model_versions) IN
       /\ Yield(tail[locals.i + 1])
       /\ locals' = [locals EXCEPT
              !.i = IF locals.i + 1 < Len(tail) THEN @ + 1 ELSE 0,
              !.yielded = TRUE]
       /\ pc' = IF locals.i + 1 < Len(tail) THEN pc ELSE "runs"
    /\ UNCHANGED <<Frame, gens, calls, taken>>

\* the loop over runs is over: on to the next experiment
RunsDone ==
    /\ pc = "runs"
    /\ gens.runs.at = "returned"
    /\ pc' = "experiments"
    /\ locals' = [locals EXCEPT !.yielded = FALSE]
    /\ UNCHANGED <<Frame, gens, out, calls, taken>>

\* _get_experiment_workunits is over: the next phase starts
ExperimentsDone ==
    /\ pc = "experiments"
    /\ gens.experiments.at = "returned"
    /\ EnterPhase(PhaseAfter("experiments"))
    /\ locals' = [locals EXCEPT !.yielded = FALSE]
    /\ UNCHANGED <<Frame, out, calls, taken>>

\* for registered_model in registered_models:
NextRegisteredModel ==
    /\ pc = "models"
    /\ TraverseHasItem(gens.registered_models)
    /\ gens' = [gens EXCEPT !.registered_models = TraverseYielded(@)]
    /\ locals' = [locals EXCEPT
           !.registered_model = TraverseItem(gens.registered_models),
           !.yielded = FALSE]
    /\ taken' = Append(taken,
           Taken("registered_model", TraverseItem(gens.registered_models)))
    /\ pc' = "model_group"
    /\ UNCHANGED <<Frame, out, calls>>

\* yield self._get_ml_group_workunit(registered_model); then
\* model_versions = self._get_mlflow_model_versions(registered_model)
EmitModelGroup ==
    /\ pc = "model_group"
    /\ Yield(GetMlGroupWorkunit(locals.registered_model))
    /\ gens' = [gens EXCEPT !.model_versions =
           TraverseStart("search_model_versions",
               << <<"filter_string",
                    "name = '" \o locals.registered_model.name \o "'">> >>)]
    /\ locals' = [locals EXCEPT !.model_versions = <<>>, !.yielded = TRUE]
    /\ pc' = "model_list"
    /\ UNCHANGED <<Frame, calls, taken>>

\* What iterating a traversal yields without a further search call: nothing
\* once it has returned.
TraverseRest(g) == IF g.at = "returned" THEN <<>> ELSE g.items

\* for model_version in model_versions: the items the loop runs over, after
\* list(model_versions) has returned listed
LoopItems(g, listed) == TraverseRest(g)

\* the workunits of the loop over a model's versions
ModelLoopWorkunits(registered_model, items) ==
    Flatten([i \in 1..Len(items) |->
                ModelVersionWorkunits(registered_model, items[i],
                                      GetMlflowRun(items[i], GetRun(items[i].run_id)))])

\* list(model_versions) has returned: if it is not empty, the loop over
\* model_versions and then self._get_version_latest(...), which raises when
\* latest_versions is empty
ModelVersionsListed ==
    /\ pc = "model_list"
    /\ gens.model_versions.at = "returned"
    /\ LET loop == ModelLoopWorkunits(locals.registered_model,
                       LoopItems(gens.model_versions, locals.model_versions))
       IN
       IF Len(locals.model_versions) > 0
       THEN IF VersionLatestRaises(locals.registered_model)
            THEN /\ out' = out \o loop
                 /\ pc' = "error"
                 /\ locals' = [locals EXCEPT !.yielded = FALSE]
            ELSE /\ out' = out \o loop \o
                       << GetVersionLatest(locals.registered_model,
                              GetVersionSetUrn(locals.registered_model)) >>
                 /\ pc' = "models"
                 /\ locals' = [locals EXCEPT !.yielded = TRUE]
       ELSE /\ out' = out
            /\ pc' = "models"
            /\ locals' = [locals EXCEPT !.yielded = FALSE]
    /\ UNCHANGED <<Frame, gens, calls, taken>>

\* _get_ml_model_workunits is over: the next phase starts, or
\* get_workunits_internal is over
ModelsDone ==
    /\ pc = "models"
    /\ gens.registered_models.at = "returned"
    /\ EnterPhase(PhaseAfter("models"))
    /\ locals' = [locals EXCEPT !.yielded = FALSE]
    /\ UNCHANGED <<Frame, out, calls, taken>>

\* the consumer of get_workunits_internal stops pulling after a workunit
Abandon ==
    /\ locals.yielded
    /\ pc \notin {"done", "error", "abandoned"}
    /\ pc' = "abandoned"
    /\ UNCHANGED <<Frame, gens, locals, out, calls, taken>>

Next ==
    \/ EmitTag
    \/ Search
    \/ SearchRaises
    \/ PageDone
    \/ NextExperiment
    \/ EmitExperimentWorkunit
    \/ NextRun
    \/ EmitRunHead
    \/ ListTakes
    \/ LookupDone
    \/ EmitRunTail
    \/ RunsDone
    \/ ExperimentsDone
    \/ NextRegisteredModel
    \/ EmitModelGroup
    \/ ModelVersionsListed
    \/ ModelsDone
    \/ Abandon

Spec == Init /\ [][Next]_vars

\* The mappers on their own and the pipeline, side by side: an entity mapped
\* alone, or a pass of get_workunits_internal.
SpecAll == (Init \/ InitM) /\ [][Next \/ NextM]_vars

-----------------------------------------------------------------------------
(* Properties of the pipeline.                                             *)

Last(q) == q[Len(q)]

TakenOf(kind) == SelectSeq(taken, LAMBDA t : t.kind = kind)

\* C1, for a registered model with at least one model version: when the
\* pipeline is through with a registered model whose model-version traversal
\* returned k >= 1 versions, the model has contributed 1 + 3k + 1 workunits:
\* its group record, the three records of each version in turn, and the
\* version-set record last.
C1_ModelEmitsGroupVersionsLatest ==
    (/\ pc = "models"
     /\ locals.registered_model # NoEntity
     /\ Len(locals.model_versions) >= 1)
    => LET first == Last(TakenOf("registered_model")).emitted
           mine == SubSeq(out, first + 1, Len(out))
           k == Len(locals.model_versions)
       IN
       /\ Len(mine) = 1 + 3 * k + 1
       /\ mine[1].aspectName = "mlModelGroupProperties"
       /\ \A j \in 1..k :
            SubSeq(mine, 3 * j - 1, 3 * j + 1)
                = ModelVersionWorkunits(locals.registered_model,
                      locals.model_versions[j],
                      GetMlflowRun(locals.model_versions[j],
                                   GetRun(locals.model_versions[j].run_id)))
       /\ Last(mine).aspectName = "versionSetProperties"

\* C5: the entities the pipeline holds are as the traversal delivered them:
\* the experiment, its tag mapping included, the run and the registered
\* model have the fields they had when they were taken.
C5_EntitiesStayAsDelivered ==
    /\ locals.experiment # NoEntity
           => locals.experiment = Last(TakenOf("experiment")).entity
    /\ locals.run # NoEntity => locals.run = Last(TakenOf("run")).entity
    /\ locals.registered_model # NoEntity
           => locals.registered_model = Last(TakenOf("registered_model")).entity

\* The call that served the page a continuation call goes on from.
PageBefore(i) ==
    CHOOSE j \in 1..(i - 1) :
        /\ calls[j].search_func = calls[i].search_func
        /\ calls[j].kwargs = calls[i].kwargs
        /\ ~calls[j].raised
        /\ calls[j].token = calls[i].page_token
        /\ \A l \in (j + 1)..(i - 1) :
               ~(/\ calls[l].search_func = calls[i].search_func
                 /\ calls[l].kwargs = calls[i].kwargs
                 /\ calls[l].token = calls[i].page_token)

\* The items of the page call j served that had been delivered before call i.
DeliveredBetween(j, i) ==
    SelectSeq(taken, LAMBDA t : /\ j <= t.called
                                /\ t.called < i
                                /\ \E l \in 1..Len(calls[j].items) :
                                       calls[j].items[l] = t.entity)

\* The identifiers the workunits of an experiment and of its runs are emitted on.
UrnsOfExperiment(experiment) ==
    {ContainerKeyAsUrn(ContainerKeyWithId(DataPlatformUrn(platform), experiment.name))}
    \cup {DataProcessInstanceUrn(PipelineRuns(experiment.experiment_id)[r].info.run_id,
                                 platform) : r \in 1..2}

\* C6: a search call for a next page is made only when every item of the
\* page before has been delivered; when the next page of experiments is
\* searched for, every workunit of the experiments delivered so far and of
\* their runs has been yielded (none follows the call, and the four
\* container records precede it); and once the consumer has stopped pulling
\* no search call is made.
C6_TraversalIsLazy ==
    /\ [](\A i \in 1..Len(calls) :
            TruthyStr(calls[i].page_token) =>
                Len(DeliveredBetween(PageBefore(i), i)) = Len(calls[PageBefore(i)].items))
    /\ [](\A i \in 1..Len(calls) :
            calls[i].search_func = "search_experiments" =>
                \A t \in 1..Len(taken) :
                    (taken[t].kind = "experiment" /\ taken[t].called < i) =>
                        /\ \A k \in (calls[i].emitted + 1)..Len(out) :
                               out[k].entityUrn \notin UrnsOfExperiment(taken[t].entity)
                        /\ calls[i].emitted >= taken[t].emitted + 4)
    /\ [][pc = "abandoned" => calls' = calls]_vars

C6_Witness ==
    /\ Len(calls) >= 3
    /\ calls[1].search_func = "search_experiments"
    /\ Len(calls[1].items) = 1
    /\ Len(TakenOf("run")) = 1
    /\ Last(calls).search_func = "search_experiments"
    /\ TruthyStr(Last(calls).page_token)
    /\ Len(Last(calls).items) = 1
    /\ Last(calls).emitted > 8

\* C8: when a search call raises, it is the last search call of the pass
\* (no retry), no workunit is yielded and no item delivered after it, the
\* items of the pages before it had been delivered, and the pipeline is in
\* the error state, which it never leaves.
C8_SearchErrorPropagates ==
    /\ [](\A i \in 1..Len(calls) :
            calls[i].raised =>
                /\ pc = "error"
                /\ i = Len(calls)
                /\ Len(out) = calls[i].emitted
                /\ \A t \in 1..Len(taken) : taken[t].called < i
                /\ TruthyStr(calls[i].page_token) =>
                       Len(DeliveredBetween(PageBefore(i), i))
                           = Len(calls[PageBefore(i)].items))
    /\ [][pc = "error" => UNCHANGED <<pc, out, calls, taken>>]_vars

C8_Witness ==
    /\ pc = "error"
    /\ Len(calls) >= 3
    /\ Last(calls).raised
    /\ Last(calls).search_func = "search_runs"
    /\ TruthyStr(Last(calls).page_token)
    /\ Len(TakenOf("run")) = 1
    /\ Len(out) > 8

\* The identifiers of the experiments' containers and of their runs, each
\* with the experiment it belongs to.
UrnOwners ==
    UNION {{<<urn, e.experiment_id>> : urn \in UrnsOfExperiment(e)} :
              e \in PipelineExperiments}

ExperimentUrns == {p[1] : p \in UrnOwners}

ContainerUrns ==
    {ContainerKeyAsUrn(ContainerKeyWithId(DataPlatformUrn(platform), e.name)) :
        e \in PipelineExperiments}

\* The phase a record belongs to: 1 for a tag definition, 2 for a record of
\* an experiment or of a run, 3 for a record of a registered model or of a
\* model version.
PhaseOf(wu) ==
    IF wu.aspectName = "tagProperties" THEN 1
    ELSE IF wu.entityUrn \in ExperimentUrns THEN 2
    ELSE 3

ExperimentOf(wu) == (CHOOSE p \in UrnOwners : p[1] = wu.entityUrn)[2]

RunUrns == ExperimentUrns \ ContainerUrns

IsRunRecord(wu) == wu.entityUrn \in RunUrns

\* C14: the output stream is phased: its first four records are the four
\* stage-tag definitions and it has no other tag definition; from one record
\* to the next the phase never goes back, so that no record of an experiment
\* or a run follows a record of a registered model; a record of a
\* run comes after the four container records of its experiment and no
\* container record of that experiment follows it; and the records of an
\* experiment and its runs are not interleaved with those of another one (a
\* record that follows a record of the same experiment comes right after a
\* record of that experiment).
C14_OutputIsPhased ==
    LET phase == <<>> \o [i \in 1..Len(out) |-> PhaseOf(out[i])]
        runs == <<>> \o [i \in 1..Len(out) |-> IsRunRecord(out[i])]
        owner == <<>> \o [i \in 1..Len(out) |->
                     IF phase[i] = 2 THEN ExperimentOf(out[i]) ELSE ""]
    IN
    /\ \A i \in 1..Len(out) : (phase[i] = 1) <=> (i <= 4)
    /\ \A i \in 1..Min(4, Len(out)) :
           out[i].aspect.name = <<"mlflow_production", "mlflow_staging",
                                  "mlflow_archived", "mlflow_none">>[i]
    /\ \A i \in 1..(Len(out) - 1) : phase[i] <= phase[i + 1]
    /\ \A j \in 1..Len(out) :
           (phase[j] = 2 /\ runs[j]) =>
               /\ Cardinality({i \in 1..(j - 1) :
                      ~runs[i] /\ owner[i] = owner[j]}) = 4
               /\ \A k \in (j + 1)..Len(out) : ~runs[k] => owner[k] # owner[j]
    /\ \A i, j \in 1..Len(out) :
           (i < j /\ phase[i] = 2 /\ owner[i] = owner[j]) => owner[j - 1] = owner[j]

C14_Witness ==
    /\ pc = "done"
    /\ Len(TakenOf("experiment")) = 1
    /\ Len(TakenOf("run")) = 1
    /\ \E i, j, k \in 5..Len(out) :
           /\ i < j /\ j < k
           /\ out[i].aspectName = "containerProperties"
           /\ out[j].aspectName = "mlTrainingRunProperties"
           /\ out[k].aspectName = "mlModelGroupProperties"

\* The search calls of the lookup of model versions by a run's identifier,
\* and the model versions they returned.
LookupCalls(run_id) ==
    SelectSeq(calls, LAMBDA c :
        /\ c.search_func = "search_model_versions"
        /\ c.kwargs = << <<"filter_string", "run_id = '" \o run_id \o "'">> >>)

LookupFound(run_id) ==
    Flatten([i \in 1..Len(LookupCalls(run_id)) |-> LookupCalls(run_id)[i].items])

\* The output-reference records among wus, which are the records of one run
\* whose lookup returned model_versions: one record with the identifier of
\* the first model version as its only output when there is a model version,
\* none otherwise.
OutputFollowsLookup(wus, model_versions) ==
    LET outputs == Select(wus, "dataProcessInstanceOutput") IN
    IF model_versions = <<>> THEN outputs = <<>>
    ELSE /\ Len(outputs) = 1
         /\ outputs[1].aspect.outputs = <<IdentifierOf(model_versions[1])>>

\* C17: the records of a run hold an output-reference record if and only if
\* the lookup of model versions by the run's identifier returned at least one
\* model version; the record then lists one output, the identifier of the
\* first model version the lookup returned; and in a pass the lookup is made
\* once for a run (one search without a page token, the others continuing it).
C17_OutputReferenceIffLookupFinds ==
    /\ subject.kind = "run" =>
           \A i \in 1..Len(workunits) :
               OutputFollowsLookup(workunits[i], subject.model_versions)
    /\ \A t \in 1..Len(taken) :
           taken[t].kind = "run" =>
               LET run_id == taken[t].entity.info.run_id
                   urn == DataProcessInstanceUrn(run_id, platform)
                   records == SelectSeq(out, LAMBDA wu : wu.entityUrn = urn)
                   first_pages == SelectSeq(LookupCalls(run_id),
                                            LAMBDA c : c.page_token = NoneStr)
               IN
               /\ Len(first_pages) <= 1
               /\ Select(records, "mlTrainingRunProperties") # <<>> =>
                      /\ Len(first_pages) = 1
                      /\ OutputFollowsLookup(records, LookupFound(run_id))
                      /\ \A c \in 1..Len(LookupCalls(run_id)) :
                             ~LookupCalls(run_id)[c].raised

C17_Witness ==
    /\ pc = "done"
    /\ Len(TakenOf("run")) = 1
    /\ Len(LookupCalls(TakenOf("run")[1].entity.info.run_id)) = 2
    /\ Len(LookupFound(TakenOf("run")[1].entity.info.run_id)) = 1
    /\ Select(out, "dataProcessInstanceOutput") # <<>>
    /\ Select(out, "dataProcessInstanceOutput")[1].aspect.outputs
           = <<"urn:li:mlModel:(urn:li:dataPlatform:mlflow,foo_1,PROD)">>

\* C19: the tag-association record of a model version in one of the four
\* stages references one tag, the identifier of the tag definition the tag
\* phase emits for that stage; and whatever the tracking system holds, the
\* tag definitions of a pass are its first records, those of the four stages
\* in the table's order, with different identifiers: four of them once the
\* pass is through its tag phase, and never a fifth.
C19_StageTagIsDefined ==
    /\ subject.kind = "model_version" =>
           \A i \in 1..Len(workunits) :
               LET association == Select(workunits[i], "globalTags") IN
               /\ Len(association) = 1
               /\ Len(association[1].aspect.tags) = 1
               /\ \E d \in 1..Len(registered_model_stages_info) :
                      /\ registered_model_stages_info[d].name
                             = subject.model_version.current_stage
                      /\ GetTagsWorkunits[d].aspectName = "tagProperties"
                      /\ GetTagsWorkunits[d].entityUrn = association[1].aspect.tags[1].tag
    /\ subject = NoSubject =>
           /\ \A d \in 1..Len(out) : (out[d].aspectName = "tagProperties") <=> (d <= 4)
           /\ pc \notin {"tags", "abandoned"} => Len(out) >= 4
           /\ \A d \in 1..Min(4, Len(out)) :
                  /\ out[d] = GetTagsWorkunits[d]
                  /\ out[d].aspect.name
                         = "mlflow_" \o <<"production", "staging", "archived", "none">>[d]
           /\ Cardinality({out[d].entityUrn : d \in 1..Min(4, Len(out))})
                  = Min(4, Len(out))

C19_Witness ==
    /\ subject.kind = "model_version"
    /\ Len(workunits) = 1
    /\ subject.model_version.current_stage = "Archived"
    /\ workunits[1][3].aspect.tags[1].tag = "urn:li:tag:mlflow_archived"

RecordsOf(urn) == SelectSeq(out, LAMBDA wu : wu.entityUrn = urn)

\* C20: missing optional data is no error.  Mapped alone, a model version
\* without a run identifier gives its three records, the model properties
\* without hyperparameters and metrics and with no training job; a run
\* without an end time gives its records without a completion event; an
\* experiment without a note tag gives its four records, the description
\* absent; none of them raises.  In a pass, the records of such runs and
\* experiments are the same, and the pass is in error only after a search
\* call raised or for a registered model without latest versions.
C20_MissingOptionalDataIsNoError ==
    /\ subject.kind \in {"model_version", "run", "experiment"} => pc # "error"
    /\ (subject.kind = "model_version" /\ subject.model_version.run_id = NoneStr) =>
           \A i \in 1..Len(workunits) :
               /\ AspectNames(workunits[i])
                      = <<"mlModelProperties", "versionProperties", "globalTags">>
               /\ workunits[i][1].aspect.hyperParams = NoneList
               /\ workunits[i][1].aspect.trainingMetrics = NoneList
               /\ workunits[i][1].aspect.trainingJobs = <<>>
    /\ (subject.kind = "run" /\ subject.run.info.end_time = NoneInt) =>
           \A i \in 1..Len(workunits) :
               /\ Select(workunits[i], "dataProcessInstanceRunEvent") = <<>>
               /\ Len(workunits[i]) = IF subject.model_versions = <<>> THEN 5 ELSE 6
    /\ (/\ subject.kind = "experiment" /\ workunits # <<>>
        /\ ~DictHas(subject.delivered.tags, NoteTag)) =>
           /\ Len(workunits[1]) = 4
           /\ workunits[1][2].aspect.description = NoneStr
    /\ (subject = NoSubject /\ pc = "error") =>
           \/ calls # <<>> /\ Last(calls).raised
           \/ /\ locals.registered_model # NoEntity
              /\ locals.registered_model.latest_versions = <<>>
    /\ \A t \in 1..Len(taken) :
           /\ (taken[t].kind = "run" /\ taken[t].entity.info.end_time = NoneInt) =>
                  LET records == RecordsOf(DataProcessInstanceUrn(
                                     taken[t].entity.info.run_id, platform))
                  IN
                  /\ Select(records, "dataProcessInstanceRunEvent") = <<>>
                  /\ Select(records, "subTypes") # <<>> => Len(records) \in {5, 6}
           /\ (/\ taken[t].kind = "experiment"
               /\ ~DictHas(taken[t].entity.tags, NoteTag)) =>
                  LET properties ==
                          Select(RecordsOf(ContainerKeyAsUrn(ContainerKeyWithId(
                                     DataPlatformUrn(platform), taken[t].entity.name))),
                                 "containerProperties")
                  IN
                  properties # <<>> => properties[1].aspect.description = NoneStr

C20_Witness ==
    /\ pc = "done"
    /\ Len(TakenOf("experiment")) = 1
    /\ ~DictHas(TakenOf("experiment")[1].entity.tags, NoteTag)
    /\ Len(TakenOf("run")) = 2
    /\ TakenOf("run")[2].entity.info.end_time = NoneInt
    /\ Len(RecordsOf(DataProcessInstanceUrn(TakenOf("run")[2].entity.info.run_id,
                                            platform))) = 5

\* The entity being mapped when the i-th record of a pass was yielded: the
\* last experiment, run or registered model delivered before it.
EntityAt(i) ==
    LET before == {t \in 1..Len(taken) :
                      /\ taken[t].kind # "model_version"
                      /\ taken[t].emitted < i}
    IN IF before = {} THEN [kind |-> "none"]
       ELSE taken[CHOOSE t \in before : \A u \in before : u <= t]

ContainerAspects ==
    {"subTypes", "containerProperties", "browsePathsV2", "dataPlatformInstance"}

\* C21: the container-membership record of a run names the identifier on
\* which the four container records of the run's experiment are emitted, and
\* all the records of a run are on one identifier, the process-instance
\* identifier of the run's run_id.  In a pass, each record yielded while a run
\* is being mapped is on that run's identifier, and before each
\* container-membership record the pass has emitted exactly four records on
\* the container it names, one of each container aspect.
C21_MembershipNamesEmittedContainer ==
    /\ subject.kind = "run" =>
           \A a \in 1..Len(workunits) :
               LET records == workunits[a]
                   container == GetExperimentContainerWorkunit(subject.experiment)
               IN
               /\ \A i \in 1..Len(records) :
                      records[i].entityUrn
                          = "urn:li:dataProcessInstance:guid(mlflow,"
                                \o subject.run.info.run_id \o ")"
               /\ Len(Select(records, "container")) = 1
               /\ \A i \in 1..Len(container) :
                      container[i].entityUrn
                          = Select(records, "container")[1].aspect.container
    /\ \A i \in 1..Len(out) :
           /\ EntityAt(i).kind = "run" =>
                  out[i].entityUrn
                      = "urn:li:dataProcessInstance:guid(mlflow,"
                            \o EntityAt(i).entity.info.run_id \o ")"
           /\ out[i].aspectName = "container" =>
                  LET earlier == {j \in 1..(i - 1) :
                                     out[j].entityUrn = out[i].aspect.container}
                  IN
                  /\ Cardinality(earlier) = 4
                  /\ {out[j].aspectName : j \in earlier} = ContainerAspects

C21_Witness ==
    /\ pc = "done"
    /\ Len(TakenOf("experiment")) = 1
    /\ Len(TakenOf("run")) = 2
    /\ Len(Select(out, "container")) = 2
    /\ Select(out, "container")[1].entityUrn # Select(out, "container")[2].entityUrn
    /\ Select(out, "container")[2].aspect.container
           = Select(out, "containerProperties")[1].entityUrn

\* C24: a registered model whose latest-versions list is empty is handled
\* without error, however many model versions it has: its model-group record
\* has no version tag, a version-set record is emitted only for a registered
\* model with latest versions, and the pass is in error only after a search
\* call raised, never on account of the registered model.
C24_EmptyLatestVersionsIsNoError ==
    /\ \A i \in 1..Len(out) :
           /\ (/\ out[i].aspectName = "mlModelGroupProperties"
               /\ EntityAt(i).entity.latest_versions = <<>>) =>
                  out[i].aspect.version.versionTag = NoneStr
           /\ out[i].aspectName = "versionSetProperties" =>
                  EntityAt(i).entity.latest_versions # <<>>
    /\ (subject = NoSubject /\ pc = "error") => (calls # <<>> /\ Last(calls).raised)

-----------------------------------------------------------------------------
(* The traversal on its own: a paginated source and a consumer that pulls  *)
(* items one at a time and may stop pulling.                               *)

Items == {"a", "b"}

\* The items of P pages holding at most n items in all.
RECURSIVE PageItems(_, _)
PageItems(P, n) ==
    IF P = 0 THEN {<<>>}
    ELSE UNION {{<<c>> \o rest : rest \in PageItems(P - 1, n - Len(c))} :
                c \in SeqsUpTo(Items, n)}

\* A source of P pages: page i < P carries the token of page i + 1, the last
\* page carries an empty token (None or "").
SourcesOf(P) ==
    {[i \in 1..P |-> [items |-> c[i],
                      token |-> IF i < P THEN PageToken(i + 1) ELSE end]] :
     c \in PageItems(P, MaxItems), end \in EndTokens}

Sources == UNION {SourcesOf(P) : P \in 1..MaxPages}

\* The page the search function serves for a page token.
PageIndex(page_token) ==
    IF page_token = NoneStr THEN 1
    ELSE CHOOSE i \in 2..Len(source) : PageToken(i) = page_token

InitT ==
    /\ ExamplesNotLoaded
    /\ config = DefaultConfig
    /\ client = MlflowClient(config, LocalTrackingUri)
    /\ subject = NoSubject
    /\ workunits = <<>>
    /\ source \in Sources
    /\ gen = TraverseStart("search", "")
    /\ consumer = "idle"
    /\ delivered = <<>>
    /\ fetches = <<>>
    /\ remote = NoRemote
    /\ pc = "none"
    /\ gens = NoGens
    /\ locals = NoLocals
    /\ out = <<>>
    /\ calls = <<>>
    /\ taken = <<>>

\* next(generator)
TPull ==
    /\ consumer = "idle"
    /\ consumer' = "pulling"
    /\ UNCHANGED <<evars, config, client, mvars, pvars, source, gen, delivered, fetches>>

\* the consumer drops the generator instead of pulling again
TStop ==
    /\ consumer = "idle"
    /\ consumer' = "stopped"
    /\ UNCHANGED <<evars, config, client, mvars, pvars, source, gen, delivered, fetches>>

TFetch ==
    /\ consumer = "pulling"
    /\ gen.at = "call"
    /\ fetches' = Append(fetches, TraverseCall(gen))
    /\ gen' = TraverseGotPage(gen, source[PageIndex(gen.next_page_token)])
    /\ UNCHANGED <<evars, config, client, mvars, pvars, source, consumer, delivered>>

TFetchRaises ==
    /\ consumer = "pulling"
    /\ gen.at = "call"
    /\ fetches' = Append(fetches, TraverseCall(gen))
    /\ gen' = TraverseRaised(gen)
    /\ consumer' = "failed"
    /\ UNCHANGED <<evars, config, client, mvars, pvars, source, delivered>>

TYield ==
    /\ consumer = "pulling"
    /\ TraverseHasItem(gen)
    /\ delivered' = Append(delivered, TraverseItem(gen))
    /\ gen' = TraverseYielded(gen)
    /\ consumer' = "idle"
    /\ UNCHANGED <<evars, config, client, mvars, pvars, source, fetches>>

TAdvance ==
    /\ consumer = "pulling"
    /\ TraversePageDone(gen)
    /\ gen' = TraverseAdvance(gen)
    /\ consumer' = IF gen'.at = "returned" THEN "finished" ELSE consumer
    /\ UNCHANGED <<evars, config, client, mvars, pvars, source, delivered, fetches>>

NextT == TPull \/ TStop \/ TFetch \/ TFetchRaises \/ TYield \/ TAdvance

SpecT == InitT /\ [][NextT]_vars

\* Python runs a resumed generator to its next yield, return or raise, and a
\* consumer that has not dropped the generator pulls again.
SpecTFair == SpecT /\ WF_vars(TPull \/ TFetch \/ TYield \/ TAdvance)

-----------------------------------------------------------------------------
(* Properties of the traversal.                                            *)

SourceItems == Flatten([i \in 1..Len(source) |-> source[i].items])

IsPrefix(s, t) == Len(s) <= Len(t) /\ s = SubSeq(t, 1, Len(s))

\* C2: a fully consumed traversal of a source of N items on P pages has
\* yielded exactly the N items in page order and within-page order and has
\* called the search function exactly P times, the first time with no token
\* and each later time with the token of the page before; a source whose only
\* page is empty yields nothing in exactly one call.  Until then what has been
\* delivered is a prefix of the items.
C2_TraversalYieldsAllInOrder ==
    /\ IsPrefix(delivered, SourceItems)
    /\ consumer = "finished" =>
         /\ delivered = SourceItems
         /\ Len(fetches) = Len(source)
         /\ fetches[1].page_token = NoneStr
         /\ \A i \in 2..Len(fetches) : fetches[i].page_token = source[i - 1].token

C2_Witness ==
    /\ consumer = "finished"
    /\ Len(source) = 3
    /\ Len(delivered) = 3
    /\ Len(source[1].items) = 2
    /\ delivered[1] # delivered[2]

\* C7: once the page being delivered carries an empty token (None or ""),
\* the traversal returns when that page's items are delivered and calls the
\* search function no more; and a traversal that is consumed to the end
\* comes to an end (it returns, or a call raises, or the consumer left).
C7_StopsOnEmptyToken ==
    /\ [][(TraversePageDone(gen) /\ gen.token \in EndTokens /\ gen' # gen)
            => (gen'.at = "returned" /\ fetches' = fetches)]_vars
    /\ [][gen.at = "returned" => (fetches' = fetches /\ delivered' = delivered)]_vars
    /\ <>(consumer \in {"finished", "failed", "stopped"})

C7_Witness ==
    /\ consumer = "finished"
    /\ source[Len(source)].token = ""
    /\ Len(source) = 2
    /\ Len(source[2].items) = 1

-----------------------------------------------------------------------------
(* The example entity classes at work: a script constructs experiments and *)
(* runs and calls their methods, at most MaxCalls calls on at most         *)
(* MaxObjects instances.                                                   *)

Scripts == {"run.py", "experiment.py", "mlflow_dh_client_sample_ver2.py"}

ExperimentIds == {"airline_forecast_experiment", "churn_experiment"}

RunIds == {"simple_training_run", "simple_training_run_3"}

Datasets == {"iris_input", "iris_output"}

Models == {"arima_model_1"}

\* self.<name> for a list-valued attribute: no method binds one on an
\* instance, so the lookup ends at the class attribute and every instance of
\* the class gets the same object
ListAttr(object, name) ==
    IF DictHas(object.dict, name) THEN DictGet(object.dict, name)
    ELSE class_attrs[object.class][name]

\* The names bound at module level in the module that defines Run when a Run
\* is constructed: client is bound by the script part of run.py, which an
\* import of the module does not run.
RunModuleGlobals(imported) ==
    IF imported THEN {"logger", "Run"} ELSE {"logger", "Run", "args", "client"}

\* Run._emit: "with client:" reads the module-level name client
RunEmitRaises(imported) == "client" \notin RunModuleGlobals(imported)

\* Experiment.__init__: the instance, and the four proposals _emit sends
ExperimentInit(experiment_id) ==
    [class |-> "Experiment",
     dict |-> << <<"experiment_id", experiment_id>>, <<"platform", "mlflow">>,
                 <<"client", "graph">>,
                 <<"experiment_urn", "urn:li:container:" \o experiment_id>> >>]

ExperimentEmit(experiment) ==
    [i \in 1..4 |->
        <<DictGet(experiment.dict, "experiment_urn"),
          <<"subTypes", "containerProperties", "browsePathsV2",
            "dataPlatformInstance">>[i]>>]

\* Run.__init__: the instance, and the two proposals _emit sends
RunInit(run_id, name) ==
    [class |-> "Run",
     dict |-> << <<"run_id", run_id>>, <<"name", name>>, <<"client", "graph">>,
                 <<"dpi_urn", "urn:li:dataProcessInstance:" \o run_id>> >>]

RunEmit(run) ==
    [i \in 1..2 |->
        <<DictGet(run.dict, "dpi_urn"),
          <<"dataProcessInstanceProperties", "subTypes">>[i]>>]

\* Experiment._create_new_run_index, run_ids being a list
CreateNewRunIndex(run_ids, run_id) ==
    "urn:li:dataProcessInstance:" \o run_id \o "-" \o Str(Len(run_ids.items) + 1)

Called(op, self, arg, raised, returned) ==
    [n |-> outcome.n + 1, op |-> op, self |-> self, arg |-> arg,
     raised |-> raised, returned |-> returned]

InitE ==
    /\ config = DefaultConfig
    /\ client = MlflowClient(config, LocalTrackingUri)
    /\ subject = NoSubject
    /\ workunits = <<>>
    /\ source = <<>>
    /\ gen = IdleGen
    /\ consumer = "none"
    /\ delivered = <<>>
    /\ fetches = <<>>
    /\ remote = NoRemote
    /\ pc = "none"
    /\ gens = NoGens
    /\ locals = NoLocals
    /\ out = <<>>
    /\ calls = <<>>
    /\ taken = <<>>
    /\ main \in Scripts
    /\ class_attrs = [Experiment |-> ExperimentClass, Run |-> RunClass]
    /\ objects = <<>>
    /\ outcome = NoCall
    /\ catalog = <<>>

\* experiment = Experiment(experiment_id=..., client=client)
NewExperiment ==
    /\ main \in {"experiment.py", "mlflow_dh_client_sample_ver2.py"}
    /\ outcome.n < MaxCalls
    /\ Len(objects) < MaxObjects
    /\ \E experiment_id \in ExperimentIds :
         LET experiment == ExperimentInit(experiment_id) IN
         /\ objects' = Append(objects, experiment)
         /\ catalog' = catalog \o ExperimentEmit(experiment)
         /\ outcome' = Called("Experiment", 0, experiment_id, "none", Len(objects) + 1)
    /\ UNCHANGED <<main, class_attrs, config, client, mvars, tvars, pvars>>

\* run = Run(run_id=..., name=..., client=client), in the script part of run.py
NewRun ==
    /\ main = "run.py"
    /\ outcome.n < MaxCalls
    /\ Len(objects) < MaxObjects
    /\ \E run_id \in RunIds :
         LET run == RunInit(run_id, "Simple Training Run") IN
         IF RunEmitRaises(FALSE)
         THEN /\ outcome' = Called("Run", 0, run_id, "NameError", 0)
              /\ UNCHANGED <<objects, catalog>>
         ELSE /\ objects' = Append(objects, run)
              /\ catalog' = catalog \o RunEmit(run)
              /\ outcome' = Called("Run", 0, run_id, "none", Len(objects) + 1)
    /\ UNCHANGED <<main, class_attrs, config, client, mvars, tvars, pvars>>

\* experiment.create_run(run_id, name): len(self.run_ids) raises TypeError
\* when run_ids is None; otherwise the run is constructed by the Run class
\* imported from module run, and its identifier appended to self.run_ids
CreateRun ==
    /\ outcome.n < MaxCalls
    /\ \E self \in 1..Len(objects), run_id \in RunIds :
         /\ objects[self].class = "Experiment"
         /\ LET run_ids == ListAttr(objects[self], "run_ids") IN
            IF run_ids.none
            THEN /\ outcome' = Called("create_run", self, run_id, "TypeError", 0)
                 /\ UNCHANGED <<class_attrs, objects, catalog>>
            ELSE IF RunEmitRaises(TRUE)
            THEN /\ outcome' = Called("create_run", self, run_id, "NameError", 0)
                 /\ UNCHANGED <<class_attrs, objects, catalog>>
            ELSE LET run == RunInit(CreateNewRunIndex(run_ids, run_id),
                                    "Simple Training Run")
                 IN
                 /\ objects' = Append(objects, run)
                 /\ catalog' = catalog \o RunEmit(run)
                 /\ class_attrs' = [class_attrs EXCEPT !.Experiment.run_ids.items =
                        Append(@, DictGet(run.dict, "run_id"))]
                 /\ outcome' = Called("create_run", self, run_id, "none",
                                      Len(objects) + 1)
    /\ UNCHANGED <<main, config, client, mvars, tvars, pvars>>

\* run.add_input_dataset(dataset): the method of that name is the second of
\* the two definitions in the class body, self.output_datasets.append(dataset)
AddInputDataset ==
    /\ outcome.n < MaxCalls
    /\ \E self \in 1..Len(objects), dataset \in Datasets :
         /\ objects[self].class = "Run"
         /\ class_attrs' = [class_attrs EXCEPT !.Run.output_datasets.items =
                Append(@, dataset)]
         /\ outcome' = Called("add_input_dataset", self, dataset, "none", 0)
    /\ UNCHANGED <<main, objects, catalog, config, client, mvars, tvars, pvars>>

\* run.add_model(model): self.models(model) calls a list
AddModel ==
    /\ outcome.n < MaxCalls
    /\ \E self \in 1..Len(objects), model \in Models :
         /\ objects[self].class = "Run"
         /\ outcome' = Called("add_model", self, model, "TypeError", 0)
    /\ UNCHANGED <<main, class_attrs, objects, catalog, config, client, mvars,
                   tvars, pvars>>

NextE == NewExperiment \/ NewRun \/ CreateRun \/ AddInputDataset \/ AddModel

SpecE == InitE /\ [][NextE]_vars

-----------------------------------------------------------------------------
(* Properties of the example entity classes.                               *)

\* The items of a list-valued attribute as seen from the instance at index.
ItemsOf(index, name) == ListAttr(objects[index], name).items

InstancesOf(class) == {i \in 1..Len(objects) : objects[i].class = class}

\* C25: every call of create_run on an experiment succeeds; it returns a run
\* whose identifier carries the number of runs created on that experiment
\* before, plus one; the identifier is appended to that experiment's run_ids,
\* whose identifiers stay pairwise distinct; and the run_ids of every other
\* experiment are left as they were.
C25_CreateRunAppendsToOwnRunIds ==
    [][\A self \in 1..MaxObjects :
       (outcome'.n # outcome.n /\ outcome'.op = "create_run"
            /\ outcome'.self = self) =>
          LET run_id == "urn:li:dataProcessInstance:" \o outcome'.arg \o "-"
                            \o ToString(Len(ItemsOf(self, "run_ids")) + 1)
          IN
          /\ outcome'.raised = "none"
          /\ outcome'.returned = Len(objects) + 1
          /\ objects' = Append(objects, objects'[outcome'.returned])
          /\ objects'[outcome'.returned].class = "Run"
          /\ DictGet(objects'[outcome'.returned].dict, "run_id") = run_id
          /\ ItemsOf(self, "run_ids")' = Append(ItemsOf(self, "run_ids"), run_id)
          /\ \A i \in 1..Len(ItemsOf(self, "run_ids")) :
                 ItemsOf(self, "run_ids")[i] # run_id
          /\ \A other \in InstancesOf("Experiment") \ {self} :
                 ItemsOf(other, "run_ids")' = ItemsOf(other, "run_ids")
    ]_vars

\* C26: add_input_dataset(d) on a run appends d to that run's input datasets,
\* leaves that run's output datasets and models as they were, and leaves the
\* input datasets, output datasets and models of every other run as they
\* were.
C26_AddInputDatasetFrame ==
    [][\A self \in 1..MaxObjects :
       (outcome'.n # outcome.n /\ outcome'.op = "add_input_dataset"
            /\ outcome'.self = self) =>
          /\ outcome'.raised = "none"
          /\ ItemsOf(self, "input_datasets")'
                 = Append(ItemsOf(self, "input_datasets"), outcome'.arg)
          /\ ItemsOf(self, "output_datasets")' = ItemsOf(self, "output_datasets")
          /\ ItemsOf(self, "models")' = ItemsOf(self, "models")
          /\ \A other \in InstancesOf("Run") \ {self} :
                 /\ ItemsOf(other, "input_datasets")'
                        = ItemsOf(other, "input_datasets")
                 /\ ItemsOf(other, "output_datasets")'
                        = ItemsOf(other, "output_datasets")
                 /\ ItemsOf(other, "models")' = ItemsOf(other, "models")
    ]_vars

====
